---- MODULE Spec2Model ----
(***************************************************************************)
(* State-machine model of the AgentPad backend flow executor               *)
(* (BackendFlowExecutor), the CLI flow validation, and the Telegram        *)
(* approval wait protocol (UserApprovalNode + WebhookHandler).             *)
(***************************************************************************)
EXTENDS Integers, Sequences, FiniteSets, TLC

\* ------------------------------------------------------------------ bounds
MaxDispatch == 7      \* executor dispatches explored per run
MaxRuns == 2          \* executeFlow invocations on one executor instance
MaxIter == 4          \* iterations explored of one interval loop
MaxTime == 6          \* clock ticks explored by the approval protocol
MaxTimeout == 3       \* longest approval timeout, in ticks
MaxWaits == 2         \* approval waits one handler sees, one after another
MaxCallbacks == 2     \* inbound callbacks explored
MaxCalls == 3         \* executor and resolver calls made one after another
MaxHandlerCalls == 4  \* webhook handler methods called one after another

\* The clock of the approval protocol counts ticks of half a second: the
\* poll interval of 1000 ms is two ticks, the delay of 2000 ms of a
\* simulated approval is four.
PollPeriod == 2
SimulationDelay == 4

\* ------------------------------------------------------------------ values
\* JavaScript values, tagged: number, string, boolean, null, undefined.
\* Absent marks a key that is not in an object (the `in` operator is false).
Val(t, n, s) == [t |-> t, n |-> n, s |-> s]
Num(n) == Val("num", n, "")
Str(s) == Val("str", 0, s)
Bool(b) == Val("bool", IF b THEN 1 ELSE 0, "")
Null == Val("null", 0, "")
Undefined == Val("undefined", 0, "")
Absent == Val("absent", 0, "")
NaN == Val("nan", 0, "")

VarNames == {"x", "y", "stopMonitoring", "out", "", "0x1", "2"}
NodeIds == {"s", "a", "b", "c", "d"}
Ghost == "zz"

\* Strings that match /^-?\d*\.?\d+$/ and the number each converts to.
NumericLiterals == [lit \in {"0", "1", "2", "3", "5"} |->
                      CASE lit = "0" -> 0 [] lit = "1" -> 1
                        [] lit = "2" -> 2 [] lit = "3" -> 3 [] lit = "5" -> 5]
HexStrings == {"0x1"}

\* String.prototype.trim on the strings of the model: two of them have
\* white space around their text.
Trim(str) ==
    CASE str = "  " -> ""
      [] str = " 5" -> "5"
      [] OTHER -> str

\* Number(v) for the value kinds of the model.
ToNumber(v) ==
    CASE v.t = "num" -> v
      [] v.t = "bool" -> Num(v.n)
      [] v.t = "null" -> Num(0)
      [] v.t = "str" -> IF Trim(v.s) = "" THEN Num(0)
                        ELSE IF Trim(v.s) \in DOMAIN NumericLiterals
                             THEN Num(NumericLiterals[Trim(v.s)])
                             ELSE NaN
      [] OTHER -> NaN

EmptyStore == [n \in VarNames |-> Absent]

\* The store is a plain object: besides its own keys, `name in this.variables`
\* holds for the property names it inherits from Object.prototype, and
\* reading one gives the inherited function.
InheritedNames == {"toString"}
In(name, store) ==
    \/ name \in VarNames /\ store[name] # Absent
    \/ name \in InheritedNames
Get(name, store) ==
    IF name \in VarNames /\ store[name] # Absent THEN store[name]
    ELSE Val("function", 0, name)
EmptyResults == [n \in NodeIds |-> Absent]

\* Objects a variable can hold, by name: the keys each has and their values.
\* "order" is {items: {...}, id: 1, note: "abc", blob: <JSON text>, gone: null},
\* "items" is the array ["abc"].
Obj(name) == Val("obj", 0, name)
Keys == {"items", "id", "note", "blob", "gone", "0", "missing"}
ItemsJson == "[\"abc\"]"
OrderJson == "{\"items\":[\"abc\"],\"id\":1,\"note\":\"abc\",\"blob\":\"[\\\"abc\\\"]\",\"gone\":null}"
Objects ==
    [name \in {"order", "items"} |->
       [key \in Keys |->
          CASE name = "order" /\ key = "items" -> Obj("items")
            [] name = "order" /\ key = "id" -> Num(1)
            [] name = "order" /\ key = "note" -> Str("abc")
            [] name = "order" /\ key = "blob" -> Str(ItemsJson)
            [] name = "order" /\ key = "gone" -> Null
            [] name = "items" /\ key = "0" -> Str("abc")
            [] OTHER -> Absent]]

\* JSON.parse(text): the value, or Absent when it throws.
JsonParse(text) ==
    CASE text = OrderJson -> Obj("order")
      [] text = ItemsJson -> Obj("items")
      [] text \in DOMAIN NumericLiterals -> Num(NumericLiterals[text])
      [] text = "true" -> Bool(TRUE)
      [] text = "false" -> Bool(FALSE)
      [] text = "null" -> Null
      [] OTHER -> Absent

\* Dotted strings of the model, by their segments: split('.') and its inverse.
Bases == {"x", "y", "q"}
Paths == { <<b, k>> : b \in Bases, k \in Keys }
            \cup { <<b, k1, k2>> : b \in Bases, k1 \in Keys, k2 \in Keys }
Join(parts) ==
    IF Len(parts) = 2 THEN parts[1] \o "." \o parts[2]
    ELSE parts[1] \o "." \o parts[2] \o "." \o parts[3]
DottedStrings == { Join(parts) : parts \in Paths }
SplitTable == [str \in DottedStrings |-> CHOOSE parts \in Paths : Join(parts) = str]
Split(str) == SplitTable[str]

\* Variant of Descend that gives undefined where a hop fails.
RECURSIVE DescendUndefined(_, _, _, _)
DescendUndefined(current, parts, k, val) ==
    IF k > Len(parts) THEN current
    ELSE IF current.t = "obj" /\ Objects[current.s][parts[k]] # Absent
         THEN LET hop == Objects[current.s][parts[k]]
                  parsed == IF hop.t = "str" THEN JsonParse(hop.s) ELSE Absent
              IN DescendUndefined(IF parsed.t = "obj" THEN parsed ELSE hop,
                                  parts, k + 1, val)
         ELSE Undefined

\* The loop of resolveValue over the segments after the base: parts[k] is the
\* next segment, val the raw string returned when a hop fails.
RECURSIVE Descend(_, _, _, _)
Descend(current, parts, k, val) ==
    IF k > Len(parts) THEN current
    ELSE IF current.t = "obj" /\ Objects[current.s][parts[k]] # Absent
         THEN LET hop == Objects[current.s][parts[k]]
                  parsed == IF hop.t = "str" THEN JsonParse(hop.s) ELSE Absent
              IN Descend(IF parsed.t = "obj" THEN parsed ELSE hop, parts, k + 1, val)
         ELSE val

resolveValue(val, store) ==
    IF val.t = "str" /\ In(val.s, store)
    THEN Get(val.s, store)
    ELSE IF /\ val.t = "str" /\ val.s \in DottedStrings
            /\ Split(val.s)[1] \in VarNames
            /\ store[Split(val.s)[1]] # Absent
         THEN LET base == store[Split(val.s)[1]]
                  parsed == IF base.t = "str" THEN JsonParse(base.s) ELSE Absent
              IN Descend(IF parsed # Absent THEN parsed ELSE base, Split(val.s), 2, val)
    ELSE IF val.t = "num" THEN val
    ELSE IF val.t = "str" /\ Trim(val.s) = "" THEN Num(0)
    ELSE IF val.t = "str" /\ val.s \in HexStrings THEN val
    ELSE IF val.t = "str" /\ Trim(val.s) \in DOMAIN NumericLiterals
         THEN ToNumber(val)
    ELSE val

NumToStr(n) == CHOOSE lit \in DOMAIN NumericLiterals : NumericLiterals[lit] = n

\* String(v)
ToStr(v) ==
    CASE v.t = "str" -> v.s
      [] v.t = "num" -> NumToStr(v.n)
      [] v.t = "bool" -> IF v.n = 1 THEN "true" ELSE "false"
      [] v.t = "null" -> "null"
      [] v.t = "obj" -> IF v.s = "items" THEN "abc" ELSE "[object Object]"
      [] v.t = "nan" -> "NaN"
      [] OTHER -> "undefined"

\* resolveVariablePath: the walk from this.variables along the segments,
\* undefined where a segment cannot be reached.
RECURSIVE WalkPath(_, _, _)
WalkPath(current, parts, k) ==
    IF k > Len(parts) THEN current
    ELSE IF current.t = "obj" /\ Objects[current.s][parts[k]] # Absent
         THEN WalkPath(Objects[current.s][parts[k]], parts, k + 1)
    ELSE IF current.t = "str"
         THEN LET parsed == JsonParse(current.s)
              IN IF parsed.t = "obj" /\ Objects[parsed.s][parts[k]] # Absent
                 THEN WalkPath(Objects[parsed.s][parts[k]], parts, k + 1)
                 ELSE Undefined
    ELSE Undefined

resolveVariablePath(path, store) ==
    LET parts == IF path \in DottedStrings THEN Split(path) ELSE <<path>>
    IN IF parts[1] \in VarNames /\ store[parts[1]] # Absent
       THEN WalkPath(store[parts[1]], parts, 2)
       ELSE Undefined

\* Template strings are read as tokens: a placeholder {path} or a piece of
\* text without braces. Render writes the tokens out, Tokens reads them back
\* as the pattern /\{([^}]+)\}/g finds them.
Text(str) == [ph |-> FALSE, s |-> str]
Placeholder(path) == [ph |-> TRUE, s |-> path]
TextAtoms == {"z", "5", "1", "abc", "null", "[object Object]", ItemsJson}
PlaceholderPaths == {"y", "q", "x.note", "x.missing", "x.items.0", "x.id"}
Atoms == { Text(str) : str \in TextAtoms } \cup
         { Placeholder(path) : path \in PlaceholderPaths }
TokenSeqs == {<<>>} \cup { <<a>> : a \in Atoms } \cup { <<a, b>> : a \in Atoms, b \in Atoms }
RenderToken(tok) == IF tok.ph THEN "{" \o tok.s \o "}" ELSE tok.s
Render(tokens) ==
    CASE Len(tokens) = 0 -> ""
      [] Len(tokens) = 1 -> RenderToken(tokens[1])
      [] OTHER -> RenderToken(tokens[1]) \o RenderToken(tokens[2])
TemplateStrings == { Render(tokens) : tokens \in TokenSeqs }
TokenTable ==
    [str \in TemplateStrings |-> CHOOSE tokens \in TokenSeqs : Render(tokens) = str]
Tokens(str) == TokenTable[str]

\* str.replace(match, value): the first occurrence of the token is replaced.
ReplaceFirst(tokens, tok, with) ==
    IF \E k \in 1..Len(tokens) : tokens[k] = tok
    THEN LET k == CHOOSE j \in 1..Len(tokens) :
                     tokens[j] = tok /\ \A i \in 1..(j - 1) : tokens[i] # tok
         IN SubSeq(tokens, 1, k - 1) \o with \o SubSeq(tokens, k + 1, Len(tokens))
    ELSE tokens

\* The loop over the matches found in the original string.
RECURSIVE ReplaceMatches(_, _, _, _)
ReplaceMatches(matches, k, tokens, store) ==
    IF k > Len(matches) THEN tokens
    ELSE LET value == resolveVariablePath(matches[k].s, store)
         IN ReplaceMatches(matches, k + 1,
                IF value # Undefined
                THEN ReplaceFirst(tokens, matches[k], Tokens(ToStr(value)))
                ELSE tokens, store)

resolveVariablesInString(str, store) ==
    IF str.t # "str" THEN str
    ELSE LET tokens == Tokens(str.s)
             matches == SelectSeq(tokens, LAMBDA tok : tok.ph)
         IN Str(Render(ReplaceMatches(matches, 1, tokens, store)))

\* ------------------------------------------------------------------- flows
Cfg0 == [value1 |-> Undefined, value2 |-> Undefined, value |-> Undefined,
         operator |-> "", operation |-> "", variableName |-> "",
         outputVariable |-> "", timerType |-> "", duration |-> 0,
         unit |-> "", repeatCount |-> 0, variables |-> <<>>,
         selectedTool |-> ""]

Node(id, type, cfg) == [id |-> id, type |-> type, dataType |-> type, config |-> cfg]

Decl(name, type, dflt) == [name |-> name, type |-> type, defaultValue |-> dflt]

StartX == [Cfg0 EXCEPT !.variables = <<Decl("x", "number", Str("1"))>>]
StartStop == [Cfg0 EXCEPT !.variables =
                 <<Decl("x", "number", Undefined),
                   Decl("stopMonitoring", "string", Str("false"))>>]
IncX == [Cfg0 EXCEPT !.variableName = "x", !.operation = "increment"]
SetX2 == [Cfg0 EXCEPT !.variableName = "x", !.value = Str("2")]
SetStop == [Cfg0 EXCEPT !.variableName = "stopMonitoring",
                        !.operation = "set", !.value = Str("true")]
CondX(op) == [Cfg0 EXCEPT !.value1 = Str("x"), !.operator = op,
                          !.value2 = Num(1), !.outputVariable = "out"]
CondStop(op) == [Cfg0 EXCEPT !.value1 = Str("stopMonitoring"), !.operator = op,
                             !.value2 = Str("true")]
Timer(tt, d, u, rc) == [Cfg0 EXCEPT !.timerType = tt, !.duration = d, !.unit = u,
                                    !.repeatCount = rc, !.outputVariable = "out"]
Tool == [Cfg0 EXCEPT !.selectedTool = "sei_erc20_balance", !.outputVariable = "out"]

Casts ==
    { <<Node("s", "start", StartX), Node("a", "variable", IncX),
        Node("b", "variable", SetX2), Node("c", "blockchain", Tool)>>,
      <<Node("s", "start", StartX), Node("a", "conditional", CondX("equals")),
        Node("b", "variable", IncX), Node("c", "variable", SetX2)>>,
      <<Node("s", "start", StartX), Node("a", "conditional", CondX("less")),
        Node("b", "variable", IncX), Node("c", "variable", IncX)>>,
      <<Node("s", "start", StartX), Node("a", "conditional", CondStop("not_equals")),
        Node("b", "variable", IncX), Node("c", "timer", Timer("delay", 1, "s", 0))>>,
      <<Node("s", "start", StartStop), Node("a", "timer", Timer("interval", 1, "ms", 2)),
        Node("b", "conditional", CondStop("equals")), Node("c", "variable", SetStop)>>,
      <<Node("s", "start", StartX), Node("a", "timer", Timer("interval", 0, "s", 3)),
        Node("b", "variable", IncX), Node("c", "variable", SetX2)>>,
      <<Node("s", "start", StartX), Node("a", "timer", Timer("interval", 1, "s", 0)),
        Node("b", "conditional", CondX("less")), Node("c", "variable", IncX)>>,
      <<Node("s", "start", StartX), Node("a", "variable", IncX),
        Node("b", "widget", Cfg0), Node("c", "variable", SetX2)>>,
      <<Node("s", "start", StartX), Node("a", "start", StartStop),
        Node("b", "variable", IncX), Node("c", "variable", SetX2)>>,
      <<Node("s", "variable", SetX2), Node("a", "variable", IncX),
        Node("b", "variable", IncX), Node("c", "variable", SetX2)>>,
      <<[Node("s", "start", StartX) EXCEPT !.dataType = ""],
        [Node("a", "variable", IncX) EXCEPT !.dataType = ""],
        [Node("b", "variable", SetX2) EXCEPT !.dataType = ""],
        [Node("c", "variable", SetX2) EXCEPT !.dataType = ""]>> }

Edge(src, tgt, h) == [source |-> src, target |-> tgt, sourceHandle |-> h]

\* Candidate edges in declaration order; a flow declares a subsequence.
EdgePool ==
    << Edge("s", "a", ""), Edge("s", "b", ""), Edge("a", "b", "true"),
       Edge("a", Ghost, "true"), Edge("a", "c", "false"), Edge("b", "c", ""),
       Edge("c", "a", ""), Edge("a", "a", ""), Edge("s", "a", "") >>

RECURSIVE SubSeq2(_, _, _)
SubSeq2(seq, keep, i) ==
    IF i > Len(seq) THEN <<>>
    ELSE IF i \in keep THEN <<seq[i]>> \o SubSeq2(seq, keep, i + 1)
    ELSE SubSeq2(seq, keep, i + 1)

\* A conditional inside an interval subgraph with a cycle back to it.
CycleFlow ==
    [nodes |-> <<Node("s", "start", StartX),
                 Node("c", "timer", Timer("interval", 1, "ms", 1)),
                 Node("a", "conditional", [CondX("less") EXCEPT !.value2 = Num(2)]),
                 Node("b", "variable", IncX),
                 Node("d", "variable", [IncX EXCEPT !.operation = "get"])>>,
     edges |-> <<Edge("s", "c", ""), Edge("c", "a", ""), Edge("a", "b", "true"),
                 Edge("b", "a", ""), Edge("a", "d", "false")>>]

\* A tool call, which can fail, inside the subgraph of an interval timer.
ToolLoopFlow ==
    [nodes |-> <<Node("s", "start", StartX),
                 Node("a", "timer", [Timer("interval", 1, "ms", 2)
                                        EXCEPT !.outputVariable = "y"]),
                 Node("b", "blockchain", Tool),
                 Node("c", "variable", IncX)>>,
     edges |-> <<Edge("s", "a", ""), Edge("a", "b", ""), Edge("b", "c", "")>>]

\* An edge whose target is no node but an inherited name, between two edges
\* to nodes.
DanglingFlow ==
    [nodes |-> <<Node("s", "start", StartX),
                 Node("a", "variable", IncX),
                 Node("b", "variable", SetX2),
                 Node("c", "variable", IncX)>>,
     edges |-> <<Edge("s", "a", ""), Edge("a", "b", ""),
                 Edge("a", "toString", ""), Edge("a", "c", "")>>]

Flows == { [nodes |-> c, edges |-> SubSeq2(EdgePool, k, 1)] :
             c \in Casts, k \in SUBSET (1..Len(EdgePool)) }
         \cup {CycleFlow, ToolLoopFlow, DanglingFlow}

Shapes == {"ok", "nodesNotArray", "edgesNotArray"}

\* ------------------------------------------------------------------- state
VARIABLES
    flow,         \* the flow document handed to executeFlow / validate
    shape,        \* shape of the flowData of the latest executeFlow call
    runs,         \* executeFlow invocations so far on this executor
    status,       \* "idle" | "running" | "returned" | "rejected" | "crashed"
    error,        \* message executeFlow rejected with
    variables,    \* this.variables
    nodeResults,  \* this.nodeResults
    shouldStop,   \* this.shouldStop
    server,       \* this.webhookHandler.server is set
    visited,      \* the visited Set of the current run
    stack,        \* activations of executeNodeRecursive / executeTimerNode
    fault,        \* error being thrown up the stack ("" when none)
    log,          \* history: node ids in dispatch order, current run
    done,         \* history: the latest completed executeNodeRecursive call
    valid,        \* outcome of the CLI validate command
    now,          \* Date.now(), in ticks
    pending,      \* webhookHandler.pendingApprovals, in insertion order
    wait,         \* the latest waitForApproval call: its timers and promise
    callbacks,    \* inbound callback queries that found a pending approval
    waitCount,    \* waitForApproval calls so far
    call,         \* history: the latest executor or resolver called on its own
    port,         \* who listens on TCP port 3001: "free" | "mine" | "other"
    tracker,      \* the flow's entry in .running-flows.json: "none" | "running"
    stopIssued    \* history: the stop command has been run on the flow

engineVars == <<flow, shape, runs, status, error, variables, nodeResults,
                shouldStop, server, visited, stack, fault, log, done, valid>>
approvalVars == <<now, pending, wait, callbacks, waitCount>>
cliVars == <<port, tracker, stopIssued>>
vars == <<engineVars, approvalVars, call, cliVars>>

\* ----------------------------------------------------------------- helpers
HasNode(id) == \E k \in 1..Len(flow.nodes) : flow.nodes[k].id = id

\* nodeMap is a plain object as well: nodeMap[id] is truthy for the id of a
\* node and for a property name inherited from Object.prototype.
NodeMapHas(id) == HasNode(id) \/ id \in InheritedNames

\* nodeMap[id]: Object.fromEntries keeps the last node of an id; for an
\* inherited name the value is a function, whose id and type are undefined.
NodeOf(id) ==
    LET ks == {k \in 1..Len(flow.nodes) : flow.nodes[k].id = id}
    IN IF ks = {} THEN Node("undefined", "undefined", Cfg0)
       ELSE flow.nodes[CHOOSE k \in ks : \A j \in ks : j <= k]

\* Variant of NextEdges that keeps the first outgoing edge only.
NextEdgesFirstOnly(id) ==
    LET all == SelectSeq(flow.edges, LAMBDA e : e.source = id)
    IN IF all = <<>> THEN <<>> ELSE <<all[1]>>

NextEdges(id) == SelectSeq(flow.edges, LAMBDA e : e.source = id)

StartIndexes == {k \in 1..Len(flow.nodes) : flow.nodes[k].type = "start"}

\* nodes.find(n => n.type === 'start'): the first one.
StartNode == flow.nodes[CHOOSE k \in StartIndexes : \A j \in StartIndexes : k <= j]

Frame(kind, id, interval, pc) ==
    [k |-> kind, node |-> id, interval |-> interval, pc |-> pc, i |-> 1,
     count |-> 0, res |-> Absent, taken |-> {}, seen |-> {}]

NoDone == [node |-> "", res |-> Absent, taken |-> {}, seen |-> {}, stop |-> FALSE]

Top == stack[Len(stack)]
Pop(st) == SubSeq(st, 1, Len(st) - 1)
SetTop(st, f) == [st EXCEPT ![Len(st)] = f]

Count(seq, id) == Cardinality({k \in 1..Len(seq) : seq[k] = id})

Running == status = "running" /\ fault = "" /\ stack # <<>>

\* --------------------------------------------------------------- executors
\* An executor's outcome: it returns `result` with the store as it left it,
\* or throws `err`.
Ok(store, result) == [ok |-> TRUE, store |-> store, result |-> result, err |-> ""]
Throw(store, msg) == [ok |-> FALSE, store |-> store, result |-> Absent, err |-> msg]

\* The strings of the model in code-unit order, for < and > on two strings.
StrOrder == <<"", "0", "0x1", "1", "2", "3", "5", "false", "stopMonitoring",
              "true", "x">>
StrIndex(str) == CHOOSE k \in 1..Len(StrOrder) : StrOrder[k] = str


\* The default a start node gives a declared variable.
DefaultValue(decl) ==
    IF decl.defaultValue # Undefined
    THEN CASE decl.type = "number" ->
                LET num == ToNumber(decl.defaultValue)
                IN IF num = NaN THEN Num(0) ELSE num
           [] decl.type = "boolean" ->
                IF decl.defaultValue.t = "bool" THEN decl.defaultValue
                ELSE Bool(ToStr(decl.defaultValue) \in {"true", "1", "yes", "on"})
           [] decl.type = "string" -> Str(ToStr(decl.defaultValue))
           [] OTHER -> decl.defaultValue
    ELSE CASE decl.type = "number" -> Num(0)
           [] decl.type = "string" -> Str("")
           [] decl.type = "boolean" -> Bool(FALSE)
           [] OTHER -> Null

RECURSIVE InitVariables(_, _, _)
InitVariables(decls, k, store) ==
    IF k > Len(decls) THEN store
    ELSE InitVariables(decls, k + 1,
                       [store EXCEPT ![decls[k].name] = DefaultValue(decls[k])])

executeStartNode(node, store) ==
    Ok(InitVariables(node.config.variables, 1, store), Null)

\* currentValue + d, after the string-to-number coercion of the code.
Bump(cur, d) ==
    LET c == IF cur.t = "str"
             THEN (IF ToNumber(cur) = NaN THEN Num(0) ELSE ToNumber(cur))
             ELSE cur
    IN CASE c.t = "num" -> Num(c.n + d)
         [] c.t = "bool" -> Num(c.n + d)
         [] c.t = "null" -> Num(d)
         [] OTHER -> NaN

executeVariableNode(node, store) ==
    LET config == node.config
        name == config.variableName
        operation == IF config.operation = "" THEN "set" ELSE config.operation
    IN IF name = "" THEN Throw(store, "Variable node missing variableName")
       ELSE CASE operation = "set" ->
                   LET st == [store EXCEPT ![name] = resolveValue(config.value, store)]
                   IN Ok(st, st[name])
              [] operation = "get" ->
                   LET st == IF store[name] = Absent
                             THEN [store EXCEPT ![name] = Undefined] ELSE store
                   IN Ok(st, st[name])
              [] operation = "increment" ->
                   LET st == IF store[name] = Absent
                             THEN [store EXCEPT ![name] = Num(0)]
                             ELSE [store EXCEPT ![name] = Bump(store[name], 1)]
                   IN Ok(st, st[name])
              [] operation = "decrement" ->
                   LET st == IF store[name] = Absent
                             THEN [store EXCEPT ![name] = Num(0)]
                             ELSE [store EXCEPT ![name] = Bump(store[name], -1)]
                   IN Ok(st, st[name])
              [] OTHER -> Throw(store, "Unknown variable operation")

\* v1 - v2, v1 * v2, v1 / v2 on the numbers both sides convert to. A quotient
\* that is no integer is kept as a "ratio" of its numerator.
Arith(op, v1, v2) ==
    LET n1 == ToNumber(v1)
        n2 == ToNumber(v2)
    IN IF n1 = NaN \/ n2 = NaN THEN NaN
       ELSE CASE op = "subtract" -> Num(n1.n - n2.n)
              [] op = "multiply" -> Num(n1.n * n2.n)
              [] op = "divide" ->
                   IF n2.n = 0
                   THEN (IF n1.n = 0 THEN NaN ELSE Val("infinity", n1.n, ""))
                   ELSE IF n1.n % n2.n = 0 THEN Num(n1.n \div n2.n)
                   ELSE Val("ratio", n1.n, "")

\* Variant of Plus that subtracts.
PlusSubtracts(v1, v2) == Arith("subtract", v1, v2)

\* v1 + v2: concatenation when either side is a string, else a number sum.
Plus(v1, v2) ==
    IF v1.t = "str" \/ v2.t = "str" THEN Str(ToStr(v1) \o ToStr(v2))
    ELSE LET n1 == ToNumber(v1)
             n2 == ToNumber(v2)
         IN IF n1 = NaN \/ n2 = NaN THEN NaN ELSE Num(n1.n + n2.n)

executeArithmeticNode(node, store) ==
    LET config == node.config
        v1 == resolveValue(config.value1, store)
        v2 == resolveValue(config.value2, store)
        known == config.operation \in {"add", "subtract", "multiply", "divide"}
        result == CASE config.operation = "add" -> Plus(v1, v2)
                    [] config.operation = "divide" ->
                         IF v2 # Num(0) THEN Arith("divide", v1, v2) ELSE Null
                    [] OTHER -> Arith(config.operation, v1, v2)
    IN IF ~known THEN Throw(store, "Unknown arithmetic operation")
       ELSE IF config.outputVariable # ""
            THEN Ok([store EXCEPT ![config.outputVariable] = result], result)
            ELSE Ok(store, result)

\* v1 < v2 as JavaScript compares: two strings by code units, else as numbers.
Less(v1, v2) ==
    IF v1.t = "str" /\ v2.t = "str" THEN StrIndex(v1.s) < StrIndex(v2.s)
    ELSE LET n1 == ToNumber(v1)
             n2 == ToNumber(v2)
         IN n1 # NaN /\ n2 # NaN /\ n1.n < n2.n

\* v1 === v2
StrictEquals(v1, v2) == v1 = v2 /\ v1 # NaN

executeConditionalNode(node, store) ==
    LET config == node.config
        v1 == resolveValue(config.value1, store)
        v2 == resolveValue(config.value2, store)
        known == config.operator \in {"equals", "not_equals", "greater", "less"}
        result == CASE config.operator = "equals" -> StrictEquals(v1, v2)
                    [] config.operator = "not_equals" -> ~StrictEquals(v1, v2)
                    [] config.operator = "greater" -> Less(v2, v1)
                    [] config.operator = "less" -> Less(v1, v2)
                    [] OTHER -> FALSE
    IN IF ~known THEN Throw(store, "Unknown conditional operator")
       ELSE IF config.outputVariable # ""
            THEN Ok([store EXCEPT ![config.outputVariable] = Bool(result)], Bool(result))
            ELSE Ok(store, Bool(result))

\* executeBlockchainNode: the tool call is an external collaborator that
\* returns a value or fails; `outcome` is what it did.
executeBlockchainNode(node, store, outcome) ==
    LET config == node.config
    IN IF config.selectedTool = "" THEN Throw(store, "No blockchain operation selected")
       ELSE IF outcome = "fail" THEN Throw(store, "tool failed")
       ELSE IF config.outputVariable # ""
            THEN Ok([store EXCEPT ![config.outputVariable] = Str("0x1")], Str("0x1"))
            ELSE Ok(store, Str("0x1"))

\* executeNode's switch, for the executors that finish within the call.
executeNode(node, store, outcome) ==
    CASE node.type = "start" -> executeStartNode(node, store)
      [] node.type = "variable" -> executeVariableNode(node, store)
      [] node.type = "arithmetic" -> executeArithmeticNode(node, store)
      [] node.type = "conditional" -> executeConditionalNode(node, store)
      [] node.type = "blockchain" -> executeBlockchainNode(node, store, outcome)
      [] OTHER -> Throw(store, "Unknown node type")

\* The stop condition of executeNodeRecursive.
IsStopCondition(node, result) ==
    /\ node.type = "conditional"
    /\ result = Bool(TRUE)
    /\ node.config.value1 = Str("stopMonitoring")
    /\ node.config.value2 = Str("true")

\* ------------------------------------------------------------------ engine
\* No executor or resolver has been called on its own.
NoCall == [fn |-> "", prev |-> "", config |-> Cfg0, before |-> EmptyStore,
           ok |-> TRUE, result |-> Absent, n |-> 0]

\* No waitForApproval call has been made yet. chatId and timeout are those of
\* the registration, registeredAt is the time of the call.
NoWait ==
    [approvalId |-> "", chatId |-> "", timeout |-> 0, registeredAt |-> 0,
     nextPoll |-> 0, backstopAt |-> 0, interval |-> FALSE, backstop |-> FALSE,
     state |-> "none", action |-> "", resolvedAt |-> 0, resolves |-> 0,
     delivered |-> FALSE, registered |-> FALSE, simulation |-> FALSE,
     simulationAt |-> 0]

Init ==
    /\ flow \in Flows
    /\ shape = "ok"
    /\ runs = 0
    /\ status = "idle"
    /\ error = ""
    /\ variables = EmptyStore
    /\ nodeResults = EmptyResults
    /\ shouldStop = FALSE
    /\ server = FALSE
    /\ visited = {}
    /\ stack = <<>>
    /\ fault = ""
    /\ log = <<>>
    /\ done = NoDone
    /\ valid = "unchecked"
    /\ now = 0
    /\ pending = <<>>
    /\ wait = NoWait
    /\ callbacks = 0
    /\ waitCount = 0
    /\ call = NoCall
    /\ port = "free"
    /\ tracker = "none"
    /\ stopIssued = FALSE

\* Variant of FlowIsValid that demands a single start node.
FlowIsValidOneStart(f, sh) ==
    /\ sh # "nodesNotArray"
    /\ sh # "edgesNotArray"
    /\ Cardinality({k \in 1..Len(f.nodes) : f.nodes[k].dataType = "start"}) = 1
    /\ \A k \in 1..Len(f.nodes) : f.nodes[k].id # "" /\ f.nodes[k].dataType # ""

\* validateFlow of the CLI, after the file is found and parsed.
FlowIsValid(f, sh) ==
    /\ sh # "nodesNotArray"
    /\ sh # "edgesNotArray"
    /\ \E k \in 1..Len(f.nodes) : f.nodes[k].dataType = "start"
    /\ \A k \in 1..Len(f.nodes) : f.nodes[k].id # "" /\ f.nodes[k].dataType # ""

\* The validate command: its process validates one flow file and ends.
Validate ==
    /\ status = "idle"
    /\ valid = "unchecked"
    /\ \E sh \in Shapes :
          /\ shape' = sh
          /\ valid' = IF FlowIsValid(flow, sh) THEN "valid" ELSE "invalid"
    /\ UNCHANGED <<flow, runs, status, error, variables, nodeResults,
                   shouldStop, server, visited, stack, fault, log, done>>
    /\ UNCHANGED <<approvalVars, call, cliVars>>

\* The check executeFlow makes before it runs anything: "" when it passes.
FlowError(f, sh) ==
    IF sh # "ok" THEN "Invalid flow: nodes and edges must be arrays"
    ELSE IF ~\E k \in 1..Len(f.nodes) : f.nodes[k].type = "start"
         THEN "No Start node found"
         ELSE ""

\* What app.listen(3001) does when executeFlow starts the webhook server. On
\* a port another server holds it fails with EADDRINUSE, and no 'error'
\* listener is installed: the server's unhandled 'error' event ends the
\* process ("crash"), or, where the library hands the error to the listen
\* callback, start() resolves with a server that does not listen ("unbound").
ListenOutcomes ==
    IF ~server /\ port = "other" THEN {"crash", "unbound"} ELSE {"ok"}

\* Variant of ExecuteFlow that clears the result log and the stop flag
\* before it checks the flow.
ExecuteFlowClearsFirst ==
    /\ status \in {"idle", "returned", "rejected"}
    /\ valid = "unchecked"
    /\ runs < MaxRuns
    /\ nodeResults' = EmptyResults
    /\ shouldStop' = FALSE
    /\ \E sh \in Shapes :
          /\ shape' = sh
          /\ runs' = runs + 1
          /\ log' = <<>>
          /\ done' = NoDone
          /\ IF FlowError(flow, sh) # ""
             THEN /\ status' = "rejected"
                  /\ error' = FlowError(flow, sh)
                  /\ UNCHANGED <<server, port, visited, stack>>
             ELSE \E listen \in ListenOutcomes :
                  /\ error' = ""
                  /\ server' = TRUE
                  /\ port' = IF ~server /\ port = "free" THEN "mine" ELSE port
                  /\ IF listen = "crash"
                     THEN /\ status' = "crashed"
                          /\ UNCHANGED <<visited, stack>>
                     ELSE /\ status' = "running"
                          /\ visited' = {}
                          /\ stack' = <<Frame("rec", StartNode.id, FALSE, "enter")>>
    /\ UNCHANGED <<flow, variables, fault, valid>>
    /\ UNCHANGED <<approvalVars, call, tracker, stopIssued>>

ExecuteFlow ==
    /\ status \in {"idle", "returned", "rejected"}
    /\ valid = "unchecked"
    /\ runs < MaxRuns
    /\ \E sh \in Shapes :
          /\ shape' = sh
          /\ runs' = runs + 1
          /\ log' = <<>>
          /\ done' = NoDone
          /\ IF FlowError(flow, sh) # ""
             THEN /\ status' = "rejected"
                  /\ error' = FlowError(flow, sh)
                  /\ UNCHANGED <<server, port, visited, stack>>
             ELSE \E listen \in ListenOutcomes :
                  /\ error' = ""
                  /\ server' = TRUE
                  /\ port' = IF ~server /\ port = "free" THEN "mine" ELSE port
                  /\ IF listen = "crash"
                     THEN /\ status' = "crashed"
                          /\ UNCHANGED <<visited, stack>>
                     ELSE /\ status' = "running"
                          /\ visited' = {}
                          /\ stack' = <<Frame("rec", StartNode.id, FALSE, "enter")>>
    /\ UNCHANGED <<flow, variables, nodeResults, shouldStop, fault, valid>>
    /\ UNCHANGED <<approvalVars, call, tracker, stopIssued>>

\* Variants of SkipVisit: one without the visited guard, one without the
\* stop check.
SkipVisitStopOnly(f) == shouldStop
SkipVisitVisitedOnly(f) == ~f.interval /\ f.node \in visited

\* Variant of SkipVisit with neither early return.
SkipVisitNever(f) == FALSE

\* The two early returns of executeNodeRecursive: the stop flag, and the
\* visited guard of a visit that is not an interval execution.
SkipVisit(f) == shouldStop \/ (~f.interval /\ f.node \in visited)

\* executeNodeRecursive up to the executor call.
Enter ==
    /\ Running
    /\ Top.k = "rec" /\ Top.pc = "enter"
    /\ IF SkipVisit(Top)
       THEN /\ stack' = Pop(stack)
            /\ UNCHANGED visited
       ELSE /\ visited' = IF Top.interval THEN visited ELSE visited \cup {Top.node}
            /\ stack' = SetTop(stack, [Top EXCEPT !.pc = "exec"])
    /\ UNCHANGED <<flow, shape, runs, status, error, variables, nodeResults,
                   shouldStop, server, fault, log, done, valid>>
    /\ UNCHANGED <<approvalVars, call, cliVars>>

\* What executeNodeRecursive does with the outcome r of the executor of the
\* top activation: the result-log write and the stop-condition check, or the
\* error thrown on.
Settle(node, r) ==
    IF ~r.ok
    THEN /\ fault' = r.err
         /\ UNCHANGED <<nodeResults, shouldStop, stack, done>>
    ELSE /\ fault' = ""
         /\ nodeResults' = [nodeResults EXCEPT ![node.id] = r.result]
         /\ IF IsStopCondition(node, r.result)
            THEN /\ shouldStop' = TRUE
                 /\ stack' = Pop(stack)
                 /\ done' = [node |-> node.id, res |-> r.result,
                             taken |-> {}, seen |-> {}, stop |-> TRUE]
            ELSE /\ stack' = SetTop(stack, [Top EXCEPT !.pc = "edges",
                                                !.i = 1, !.res = r.result])
                 /\ UNCHANGED <<shouldStop, done>>

\* The executor call of a node whose executor finishes within the call, the
\* result-log write and the stop-condition check.
Dispatch ==
    /\ Running
    /\ Top.k = "rec" /\ Top.pc = "exec"
    /\ NodeOf(Top.node).type \notin {"timer", "blockchain"}
    /\ Len(log) < MaxDispatch
    /\ LET node == NodeOf(Top.node)
           r == executeNode(node, variables, "ok")
       IN /\ log' = IF HasNode(Top.node) THEN Append(log, node.id) ELSE log
          /\ variables' = r.store
          /\ Settle(node, r)
    /\ UNCHANGED <<flow, shape, runs, status, error, server, visited, valid>>
    /\ UNCHANGED <<approvalVars, call, cliVars>>

\* Variant of ToolCall that does not wait for the tool: the activation goes
\* on to its edges while the call is in flight.
ToolCallNotAwaited ==
    /\ Running
    /\ Top.k = "rec" /\ Top.pc = "exec"
    /\ NodeOf(Top.node).type = "blockchain"
    /\ Len(log) < MaxDispatch
    /\ log' = Append(log, Top.node)
    /\ IF NodeOf(Top.node).config.selectedTool = ""
       THEN /\ fault' = "No blockchain operation selected"
            /\ stack' = stack
       ELSE /\ fault' = ""
            /\ stack' = SetTop(stack, [Top EXCEPT !.pc = "edges", !.i = 1])
    /\ UNCHANGED <<flow, shape, runs, status, error, variables, nodeResults,
                   shouldStop, server, visited, done, valid>>
    /\ UNCHANGED <<approvalVars, call, cliVars>>

\* executeBlockchainNode up to its await: the tool is called and the
\* activation is suspended until the call settles.
ToolCall ==
    /\ Running
    /\ Top.k = "rec" /\ Top.pc = "exec"
    /\ NodeOf(Top.node).type = "blockchain"
    /\ Len(log) < MaxDispatch
    /\ log' = Append(log, Top.node)
    /\ IF NodeOf(Top.node).config.selectedTool = ""
       THEN /\ fault' = "No blockchain operation selected"
            /\ stack' = stack
       ELSE /\ fault' = ""
            /\ stack' = SetTop(stack, [Top EXCEPT !.pc = "await"])
    /\ UNCHANGED <<flow, shape, runs, status, error, variables, nodeResults,
                   shouldStop, server, visited, done, valid>>
    /\ UNCHANGED <<approvalVars, call, cliVars>>

\* The tool call settles: executeBlockchainNode stores the result or throws,
\* and executeNodeRecursive goes on.
ToolReturn ==
    /\ Running
    /\ Top.k = "rec" /\ Top.pc = "await"
    /\ \E outcome \in {"ok", "fail"} :
          LET node == NodeOf(Top.node)
              r == executeBlockchainNode(node, variables, outcome)
          IN /\ variables' = r.store
             /\ Settle(node, r)
    /\ UNCHANGED <<flow, shape, runs, status, error, server, visited, log, valid>>
    /\ UNCHANGED <<approvalVars, call, cliVars>>

\* Variant of Truthy under which every result selects both branches' test.
TruthyAlways(v) == TRUE

Truthy(v) ==
    CASE v.t = "bool" -> v.n = 1
      [] v.t = "num" -> v.n # 0
      [] v.t = "str" -> v.s # ""
      [] OTHER -> FALSE

\* Variant of FollowEdge that takes the outgoing edges last one first.
FollowEdgeLastFirst ==
    /\ Running
    /\ Top.k = "rec" /\ Top.pc = "edges"
    /\ LET node == NodeOf(Top.node)
           nextEdges == NextEdges(node.id)
       IN IF Top.i > Len(nextEdges)
          THEN /\ stack' = Pop(stack)
               /\ done' = [node |-> node.id, res |-> Top.res, taken |-> Top.taken,
                           seen |-> Top.seen, stop |-> FALSE]
          ELSE LET edge == nextEdges[Len(nextEdges) + 1 - Top.i]
                   tagged == node.type = "conditional" /\ edge.sourceHandle # ""
                   conditionResult == nodeResults[node.id]
                   shouldFollow == IF edge.sourceHandle = "true"
                                   THEN Truthy(conditionResult)
                                   ELSE ~Truthy(conditionResult)
                   next == [Top EXCEPT
                              !.i = Top.i + 1,
                              !.seen = IF tagged /\ NodeMapHas(edge.target)
                                       THEN Top.seen \cup {conditionResult}
                                       ELSE Top.seen,
                              !.taken = IF tagged /\ NodeMapHas(edge.target) /\ shouldFollow
                                        THEN Top.taken \cup {edge.sourceHandle}
                                        ELSE Top.taken]
               IN /\ done' = done
                  /\ IF NodeMapHas(edge.target) /\ (~tagged \/ shouldFollow)
                     THEN stack' = Append(SetTop(stack, next),
                                          Frame("rec", edge.target, Top.interval, "enter"))
                     ELSE stack' = SetTop(stack, next)
    /\ UNCHANGED <<flow, shape, runs, status, error, variables, nodeResults,
                   shouldStop, server, visited, fault, log, valid>>
    /\ UNCHANGED <<approvalVars, call, cliVars>>

\* One turn of the loop over the outgoing edges in executeNodeRecursive.
FollowEdge ==
    /\ Running
    /\ Top.k = "rec" /\ Top.pc = "edges"
    /\ LET node == NodeOf(Top.node)
           nextEdges == NextEdges(node.id)
       IN IF Top.i > Len(nextEdges)
          THEN /\ stack' = Pop(stack)
               /\ done' = [node |-> node.id, res |-> Top.res, taken |-> Top.taken,
                           seen |-> Top.seen, stop |-> FALSE]
          ELSE LET edge == nextEdges[Top.i]
                   tagged == node.type = "conditional" /\ edge.sourceHandle # ""
                   conditionResult == nodeResults[node.id]
                   shouldFollow == IF edge.sourceHandle = "true"
                                   THEN Truthy(conditionResult)
                                   ELSE ~Truthy(conditionResult)
                   next == [Top EXCEPT
                              !.i = Top.i + 1,
                              !.seen = IF tagged /\ NodeMapHas(edge.target)
                                       THEN Top.seen \cup {conditionResult}
                                       ELSE Top.seen,
                              !.taken = IF tagged /\ NodeMapHas(edge.target) /\ shouldFollow
                                        THEN Top.taken \cup {edge.sourceHandle}
                                        ELSE Top.taken]
               IN /\ done' = done
                  /\ IF NodeMapHas(edge.target) /\ (~tagged \/ shouldFollow)
                     THEN stack' = Append(SetTop(stack, next),
                                          Frame("rec", edge.target, Top.interval, "enter"))
                     ELSE stack' = SetTop(stack, next)
    /\ UNCHANGED <<flow, shape, runs, status, error, variables, nodeResults,
                   shouldStop, server, visited, fault, log, valid>>
    /\ UNCHANGED <<approvalVars, call, cliVars>>

\* --------------------------------------------------------------- the timer
TimerType(config) == IF config.timerType = "" THEN "delay" ELSE config.timerType

RepeatCount(config) == IF config.repeatCount = 0 THEN -1 ELSE config.repeatCount

DurationMs(config) ==
    LET unit == IF config.unit = "" THEN "ms" ELSE config.unit
    IN CASE unit = "s" -> config.duration * 1000
         [] unit = "m" -> config.duration * 60 * 1000
         [] OTHER -> config.duration

\* count < maxCount, where maxCount is Infinity for repeatCount <= 0.
BelowMaxCount(count, config) ==
    RepeatCount(config) > 0 => count < RepeatCount(config)

\* The call of executeTimerNode up to its switch.
TimerStart ==
    /\ Running
    /\ Top.k = "rec" /\ Top.pc = "exec"
    /\ NodeOf(Top.node).type = "timer"
    /\ Len(log) < MaxDispatch
    /\ LET config == NodeOf(Top.node).config
           tt == TimerType(config)
       IN /\ log' = Append(log, Top.node)
          /\ IF tt \notin {"delay", "interval", "timeout"}
             THEN /\ fault' = "Unknown timer type"
                  /\ stack' = stack
             ELSE /\ fault' = ""
                  /\ stack' = Append(stack,
                        Frame("timer", Top.node, FALSE,
                              IF DurationMs(config) <= 0 THEN "finish"
                              ELSE IF tt = "interval" THEN "while" ELSE "sleep"))
    /\ UNCHANGED <<flow, shape, runs, status, error, variables, nodeResults,
                   shouldStop, server, visited, done, valid>>
    /\ UNCHANGED <<approvalVars, call, cliVars>>

\* The while condition of the interval loop and count++. With maxCount
\* Infinity the counter decides nothing, and it is kept at MaxIter once it
\* gets there.
TimerWhile ==
    /\ Running
    /\ Top.k = "timer" /\ Top.pc = "while"
    /\ Top.count < MaxIter \/ RepeatCount(NodeOf(Top.node).config) <= 0
    /\ IF BelowMaxCount(Top.count, NodeOf(Top.node).config) /\ ~shouldStop
       THEN stack' = SetTop(stack,
                [Top EXCEPT !.count = IF Top.count < MaxIter THEN Top.count + 1
                                      ELSE Top.count,
                            !.i = 1, !.pc = "edges"])
       ELSE stack' = SetTop(stack, [Top EXCEPT !.pc = "finish"])
    /\ UNCHANGED <<flow, shape, runs, status, error, variables, nodeResults,
                   shouldStop, server, visited, fault, log, done, valid>>
    /\ UNCHANGED <<approvalVars, call, cliVars>>

\* Variant of TimerEdge that decides to wait before it looks at the stop
\* flag.
TimerEdgeWaitsFirst ==
    /\ Running
    /\ Top.k = "timer" /\ Top.pc = "edges"
    /\ LET nextEdges == NextEdges(Top.node)
           config == NodeOf(Top.node).config
       IN IF Top.i > Len(nextEdges)
          THEN stack' = SetTop(stack,
                   [Top EXCEPT !.pc = IF BelowMaxCount(Top.count, config)
                                      THEN "sleep"
                                      ELSE IF shouldStop THEN "finish" ELSE "while"])
          ELSE LET edge == nextEdges[Top.i]
                   next == [Top EXCEPT !.i = Top.i + 1]
               IN IF NodeMapHas(edge.target)
                  THEN stack' = Append(SetTop(stack, next),
                                       Frame("rec", edge.target, TRUE, "enter"))
                  ELSE stack' = SetTop(stack, next)
    /\ UNCHANGED <<flow, shape, runs, status, error, variables, nodeResults,
                   shouldStop, server, visited, fault, log, done, valid>>
    /\ UNCHANGED <<approvalVars, call, cliVars>>

\* One turn of the loop over the timer's outgoing edges inside an iteration;
\* after the last edge, the stop check and the decision to wait.
TimerEdge ==
    /\ Running
    /\ Top.k = "timer" /\ Top.pc = "edges"
    /\ LET nextEdges == NextEdges(Top.node)
           config == NodeOf(Top.node).config
       IN IF Top.i > Len(nextEdges)
          THEN stack' = SetTop(stack,
                   [Top EXCEPT !.pc = IF shouldStop THEN "finish"
                                      ELSE IF BelowMaxCount(Top.count, config)
                                           THEN "sleep" ELSE "while"])
          ELSE LET edge == nextEdges[Top.i]
                   next == [Top EXCEPT !.i = Top.i + 1]
               IN IF NodeMapHas(edge.target)
                  THEN stack' = Append(SetTop(stack, next),
                                       Frame("rec", edge.target, TRUE, "enter"))
                  ELSE stack' = SetTop(stack, next)
    /\ UNCHANGED <<flow, shape, runs, status, error, variables, nodeResults,
                   shouldStop, server, visited, fault, log, done, valid>>
    /\ UNCHANGED <<approvalVars, call, cliVars>>

\* The setTimeout a timer is waiting on fires.
TimerWake ==
    /\ Running
    /\ Top.k = "timer" /\ Top.pc = "sleep"
    /\ stack' = SetTop(stack,
          [Top EXCEPT !.pc = IF TimerType(NodeOf(Top.node).config) = "interval"
                             THEN "while" ELSE "finish"])
    /\ UNCHANGED <<flow, shape, runs, status, error, variables, nodeResults,
                   shouldStop, server, visited, fault, log, done, valid>>
    /\ UNCHANGED <<approvalVars, call, cliVars>>

\* executeTimerNode sets the output variable and returns durationMs; the
\* caller writes it to the result log and goes on to the outgoing edges.
TimerReturn ==
    /\ Running
    /\ Top.k = "timer" /\ Top.pc = "finish"
    /\ LET config == NodeOf(Top.node).config
           result == Num(DurationMs(config))
           caller == stack[Len(stack) - 1]
       IN /\ variables' = IF config.outputVariable # ""
                          THEN [variables EXCEPT ![config.outputVariable] = result]
                          ELSE variables
          /\ nodeResults' = [nodeResults EXCEPT ![Top.node] = result]
          /\ stack' = SetTop(Pop(stack), [caller EXCEPT !.pc = "edges", !.i = 1,
                                                        !.res = result])
    /\ UNCHANGED <<flow, shape, runs, status, error, shouldStop, server, visited,
                   fault, log, done, valid>>
    /\ UNCHANGED <<approvalVars, call, cliVars>>

\* ------------------------------------------------------- faults and return
\* Variant of Unwind: the catch of an activation that is among its edges
\* swallows the error and goes on with the next edge.
UnwindSwallow ==
    /\ status = "running"
    /\ fault # ""
    /\ stack # <<>>
    /\ IF Top.k = "rec" /\ Top.pc = "edges"
       THEN /\ fault' = ""
            /\ stack' = stack
       ELSE /\ fault' = fault
            /\ stack' = Pop(stack)
    /\ UNCHANGED <<flow, shape, runs, status, error, variables, nodeResults,
                   shouldStop, server, visited, log, done, valid>>
    /\ UNCHANGED <<approvalVars, call, cliVars>>

\* Variant of Unwind: executeTimerNode catches the error of an iteration and
\* completes.
UnwindTimerCatches ==
    /\ status = "running"
    /\ fault # ""
    /\ stack # <<>>
    /\ IF Top.k = "timer"
       THEN /\ fault' = ""
            /\ stack' = SetTop(stack, [Top EXCEPT !.pc = "finish"])
       ELSE /\ fault' = fault
            /\ stack' = Pop(stack)
    /\ UNCHANGED <<flow, shape, runs, status, error, variables, nodeResults,
                   shouldStop, server, visited, log, done, valid>>
    /\ UNCHANGED <<approvalVars, call, cliVars>>

\* A thrown error leaves one activation: executeNodeRecursive logs it and
\* throws it again, executeTimerNode does not catch it.
Unwind ==
    /\ status = "running"
    /\ fault # ""
    /\ stack # <<>>
    /\ stack' = Pop(stack)
    /\ UNCHANGED <<flow, shape, runs, status, error, variables, nodeResults,
                   shouldStop, server, visited, fault, log, done, valid>>
    /\ UNCHANGED <<approvalVars, call, cliVars>>

\* executeFlow rejects with the error that reached it.
Reject ==
    /\ status = "running"
    /\ fault # ""
    /\ stack = <<>>
    /\ status' = "rejected"
    /\ error' = fault
    /\ fault' = ""
    /\ UNCHANGED <<flow, shape, runs, variables, nodeResults, shouldStop, server,
                   visited, stack, log, done, valid>>
    /\ UNCHANGED <<approvalVars, call, cliVars>>

\* executeFlow returns this.nodeResults.
Return ==
    /\ status = "running"
    /\ fault = ""
    /\ stack = <<>>
    /\ status' = "returned"
    /\ UNCHANGED <<flow, shape, runs, error, variables, nodeResults, shouldStop,
                   server, visited, stack, fault, log, done, valid>>
    /\ UNCHANGED <<approvalVars, call, cliVars>>

Next ==
    \/ Validate
    \/ ExecuteFlow
    \/ Enter
    \/ Dispatch
    \/ ToolCall
    \/ ToolReturn
    \/ FollowEdge
    \/ TimerStart
    \/ TimerWhile
    \/ TimerEdge
    \/ TimerWake
    \/ TimerReturn
    \/ Unwind
    \/ Reject
    \/ Return

Spec == Init /\ [][Next]_vars

\* ------------------------------------------------------- approval protocol
ApprovalIds == {"p", "q"}
Chats == {"c1", "c2"}
Decisions == {"approve", "reject"}

\* Map operations on pendingApprovals, which iterates in insertion order.
IndexOfApproval(map, id) ==
    IF \E k \in 1..Len(map) : map[k].approvalId = id
    THEN CHOOSE k \in 1..Len(map) : map[k].approvalId = id
    ELSE 0

MapSet(map, entry) ==
    IF IndexOfApproval(map, entry.approvalId) = 0 THEN Append(map, entry)
    ELSE [map EXCEPT ![IndexOfApproval(map, entry.approvalId)] = entry]

MapDelete(map, id) == SelectSeq(map, LAMBDA e : e.approvalId # id)

cleanupExpiredApprovals(map, t) ==
    SelectSeq(map, LAMBDA e : ~(t - e.timestamp > e.timeout))

registerPendingApproval(map, id, chat, timeout, t) ==
    cleanupExpiredApprovals(
        MapSet(map, [approvalId |-> id, chatId |-> chat, status |-> "pending",
                     timestamp |-> t, timeout |-> timeout, action |-> ""]), t)

\* getApprovalResult returns the entry (and deletes it) exactly when this holds.
HasApprovalResult(map, id) ==
    /\ IndexOfApproval(map, id) # 0
    /\ map[IndexOfApproval(map, id)].status = "completed"

isApprovalPending(map, id, t) ==
    /\ IndexOfApproval(map, id) # 0
    /\ LET approval == map[IndexOfApproval(map, id)]
       IN approval.status = "pending" /\ t - approval.timestamp < approval.timeout

\* Variant: the last pending entry of the chat instead of the first.
findPendingApprovalLast(map, chat) ==
    LET hits == {k \in 1..Len(map) : map[k].chatId = chat /\ map[k].status = "pending"}
    IN IF hits = {} THEN 0 ELSE CHOOSE k \in hits : \A j \in hits : k >= j

\* findPendingApproval: position of the first pending entry of the chat, 0
\* when there is none.
findPendingApproval(map, chat) ==
    LET hits == {k \in 1..Len(map) : map[k].chatId = chat /\ map[k].status = "pending"}
    IN IF hits = {} THEN 0 ELSE CHOOSE k \in hits : \A j \in hits : k <= j

\* handleCallbackQuery on the map: the entry findPendingApproval returns is
\* completed with the callback's data and stamped with the current time;
\* without such an entry the map is left as it is.
handleCallbackQuery(map, chat, data, t) ==
    LET k == findPendingApproval(map, chat)
    IN IF k = 0 THEN map
       ELSE [map EXCEPT ![k].status = "completed",
                        ![k].action = data,
                        ![k].timestamp = t]

\* The flow of an approval run: the approval node is "a".
ApprovalFlow ==
    [nodes |-> <<Node("s", "start", Cfg0),
                 Node("a", "userApproval", [Cfg0 EXCEPT !.outputVariable = "out"])>>,
     edges |-> <<Edge("s", "a", "")>>]

\* The object execute() returns for an action.
ApprovalValue(action) == Val("approval", IF action = "approve" THEN 1 ELSE 0, action)

InitApproval ==
    /\ flow = ApprovalFlow
    /\ shape = "ok"
    /\ runs = 1
    /\ status = "running"
    /\ error = ""
    /\ variables = EmptyStore
    /\ nodeResults = EmptyResults
    /\ shouldStop = FALSE
    /\ server = TRUE
    /\ visited = {"s", "a"}
    /\ stack = <<>>
    /\ fault = ""
    /\ log = <<>>
    /\ done = NoDone
    /\ valid = "unchecked"
    /\ now = 0
    /\ pending = <<>>
    /\ wait = NoWait
    /\ callbacks = 0
    /\ waitCount = 0
    /\ call = NoCall
    /\ port = "free"
    /\ tracker = "none"
    /\ stopIssued = FALSE

\* The chat id waitForApproval finds in the variables or the environment:
\* "" when there is none.
ChatIds == Chats \cup {""}

\* waitForApproval. With a webhook handler in the context and a chat id it
\* registers the approval and starts the poll interval and the overall
\* timeout; without one of them it registers nothing, uses no chat id and
\* starts the timeout of the simulation only.
WaitForApproval ==
    /\ wait.state \in {"none", "returned"}
    /\ waitCount < MaxWaits
    /\ waitCount' = waitCount + 1
    /\ \E id \in ApprovalIds, webhookHandler \in BOOLEAN, chat \in ChatIds :
          IF webhookHandler /\ chat # ""
          THEN \E timeout \in 1..MaxTimeout :
                  /\ pending' = registerPendingApproval(pending, id, chat, timeout, now)
                  /\ wait' = [NoWait EXCEPT
                                 !.approvalId = id, !.chatId = chat,
                                 !.timeout = timeout, !.registeredAt = now,
                                 !.nextPoll = now + PollPeriod,
                                 !.backstopAt = now + timeout,
                                 !.interval = TRUE, !.backstop = TRUE,
                                 !.state = "waiting", !.registered = TRUE]
          ELSE /\ pending' = pending
               /\ wait' = [NoWait EXCEPT
                              !.approvalId = id, !.registeredAt = now,
                              !.state = "waiting", !.simulation = TRUE,
                              !.simulationAt = now + SimulationDelay]
    /\ UNCHANGED <<now, callbacks>>
    /\ UNCHANGED <<engineVars, call, cliVars>>

\* Variant of Cleanup that leaves the overall timeout armed.
CleanupNothing(w) == w

\* cleanup(): clearTimeout(overallTimeout).
Cleanup(w) == [w EXCEPT !.backstop = FALSE]

\* The promise's own resolve: only the first call settles it.
OriginalResolve(w, action, t) ==
    IF w.state = "waiting"
    THEN [w EXCEPT !.state = "resolved", !.action = action, !.resolvedAt = t,
                   !.resolves = w.resolves + 1]
    ELSE [w EXCEPT !.resolves = w.resolves + 1]

\* resolve as the timer callbacks see it: cleanup(), then the promise's resolve.
Resolve(w, action, t) == OriginalResolve(Cleanup(w), action, t)

ClearInterval(w) == [w EXCEPT !.interval = FALSE]

\* Variant of PollTick that rejects the promise when the approval is no
\* longer pending.
PollTickRejects ==
    /\ wait.interval
    /\ now = wait.nextPoll
    /\ IF HasApprovalResult(pending, wait.approvalId)
       THEN /\ pending' = MapDelete(pending, wait.approvalId)
            /\ wait' = Resolve(ClearInterval(wait),
                          pending[IndexOfApproval(pending, wait.approvalId)].action, now)
       ELSE /\ pending' = pending
            /\ IF ~isApprovalPending(pending, wait.approvalId, now)
               THEN wait' = [ClearInterval(wait) EXCEPT !.state = "rejected",
                                                        !.backstop = FALSE]
               ELSE wait' = [wait EXCEPT !.nextPoll = wait.nextPoll + PollPeriod]
    /\ UNCHANGED <<now, callbacks, waitCount>>
    /\ UNCHANGED <<engineVars, call, cliVars>>

\* The setInterval callback of waitForApproval.
PollTick ==
    /\ wait.interval
    /\ now = wait.nextPoll
    /\ IF HasApprovalResult(pending, wait.approvalId)
       THEN /\ pending' = MapDelete(pending, wait.approvalId)
            /\ wait' = Resolve(ClearInterval(wait),
                          pending[IndexOfApproval(pending, wait.approvalId)].action, now)
       ELSE /\ pending' = pending
            /\ IF ~isApprovalPending(pending, wait.approvalId, now)
               THEN wait' = Resolve(ClearInterval(wait), "timeout", now)
               ELSE wait' = [wait EXCEPT !.nextPoll = wait.nextPoll + PollPeriod]
    /\ UNCHANGED <<now, callbacks, waitCount>>
    /\ UNCHANGED <<engineVars, call, cliVars>>

\* The setTimeout callback of waitForApproval (the overall timeout); a timer
\* that has fired is no longer armed.
BackstopFire ==
    /\ wait.backstop
    /\ now = wait.backstopAt
    /\ wait' = [Resolve(ClearInterval(wait), "timeout", now) EXCEPT !.backstop = FALSE]
    /\ UNCHANGED <<now, pending, callbacks, waitCount>>
    /\ UNCHANGED <<engineVars, call, cliVars>>

\* Variant of SimulationFire that resolves with "reject".
SimulationFireRejects ==
    /\ wait.simulation
    /\ now = wait.simulationAt
    /\ wait' = OriginalResolve([wait EXCEPT !.simulation = FALSE], "reject", now)
    /\ UNCHANGED <<now, pending, callbacks, waitCount>>
    /\ UNCHANGED <<engineVars, call, cliVars>>

\* The setTimeout callback of the simulation: it resolves with "approve".
SimulationFire ==
    /\ wait.simulation
    /\ now = wait.simulationAt
    /\ wait' = OriginalResolve([wait EXCEPT !.simulation = FALSE], "approve", now)
    /\ UNCHANGED <<now, pending, callbacks, waitCount>>
    /\ UNCHANGED <<engineVars, call, cliVars>>

\* handleCallbackQuery: a button press arrives for a chat. A press that finds
\* no pending approval of the chat only sends a message and changes nothing.
\* wait.delivered records that the press reached the approval being waited for.
HandleCallbackQuery ==
    /\ callbacks < MaxCallbacks
    /\ \E chat \in Chats, data \in Decisions :
          LET k == findPendingApproval(pending, chat)
          IN /\ k # 0
             /\ pending' = handleCallbackQuery(pending, chat, data, now)
             /\ wait' = IF /\ wait.state = "waiting" /\ wait.registered
                           /\ pending[k].approvalId = wait.approvalId
                        THEN [wait EXCEPT !.delivered = TRUE]
                        ELSE wait
    /\ callbacks' = callbacks + 1
    /\ UNCHANGED <<now, waitCount>>
    /\ UNCHANGED <<engineVars, call, cliVars>>

\* A timer of the current wait is due now.
TimerDue ==
    \/ wait.interval /\ wait.nextPoll <= now
    \/ wait.backstop /\ wait.backstopAt <= now
    \/ wait.simulation /\ wait.simulationAt <= now

\* Time passes; a due timer fires before the clock moves on.
Tick ==
    /\ now < MaxTime
    /\ ~TimerDue
    /\ now' = now + 1
    /\ UNCHANGED <<pending, wait, callbacks, waitCount>>
    /\ UNCHANGED <<engineVars, call, cliVars>>

\* execute() returns the outcome, executeUserApprovalNode stores it in the
\* output variable and the result log and returns it to the traversal.
ApprovalReturn ==
    /\ wait.state = "resolved"
    /\ wait' = [wait EXCEPT !.state = "returned"]
    /\ variables' = [variables EXCEPT !["out"] = ApprovalValue(wait.action)]
    /\ nodeResults' = [nodeResults EXCEPT !["a"] = ApprovalValue(wait.action)]
    /\ UNCHANGED <<now, pending, callbacks, waitCount, call, cliVars>>
    /\ UNCHANGED <<flow, shape, runs, status, error, shouldStop, server, visited,
                   stack, fault, log, done, valid>>

NextApproval ==
    \/ WaitForApproval
    \/ PollTick
    \/ BackstopFire
    \/ SimulationFire
    \/ HandleCallbackQuery
    \/ Tick
    \/ ApprovalReturn

SpecApproval == InitApproval /\ [][NextApproval]_vars

\* ------------------------------------------- executors called on their own
\* Stores an executor can find: x unset, a number, a numeric string, a word,
\* a boolean, null or undefined.
ExecutorStores ==
    { [EmptyStore EXCEPT !["x"] = v] :
        v \in {Absent, Num(0), Num(1), Num(5), Str("5"), Str("true"), Bool(TRUE),
               Null, Undefined} }

StartConfigs ==
    { [Cfg0 EXCEPT !.variables = <<Decl("x", type, dflt)>>] :
        type \in {"number", "string", "boolean"},
        dflt \in {Undefined, Str("5"), Num(2), Str("true")} }

VariableConfigs ==
    { [Cfg0 EXCEPT !.variableName = name, !.operation = op, !.value = Str("2")] :
        name \in {"x", "y"},
        op \in {"", "set", "get", "increment", "decrement", "reset"} }

ArithmeticConfigs ==
    { [Cfg0 EXCEPT !.value1 = v1, !.value2 = v2, !.operation = op,
                   !.outputVariable = "y"] :
        v1 \in {Str("x"), Num(3)},
        v2 \in {Num(2), Str("2"), Num(0), Num(1)},
        op \in {"add", "subtract", "multiply", "divide", "power"} }

InitExecutors ==
    /\ flow = ApprovalFlow
    /\ shape = "ok"
    /\ runs = 1
    /\ status = "running"
    /\ error = ""
    /\ variables \in ExecutorStores
    /\ nodeResults = EmptyResults
    /\ shouldStop = FALSE
    /\ server = TRUE
    /\ visited = {}
    /\ stack = <<>>
    /\ fault = ""
    /\ log = <<>>
    /\ done = NoDone
    /\ valid = "unchecked"
    /\ now = 0
    /\ pending = <<>>
    /\ wait = NoWait
    /\ callbacks = 0
    /\ waitCount = 0
    /\ call = NoCall
    /\ port = "free"
    /\ tracker = "none"
    /\ stopIssued = FALSE

\* The record of a call of executor fn with config on the current store.
Called(fn, config, outcome) ==
    [fn |-> fn, prev |-> call.fn, config |-> config, before |-> variables,
     ok |-> outcome.ok, result |-> outcome.result, n |-> call.n + 1]

ExecutorFrame == <<flow, shape, runs, status, error, nodeResults, shouldStop, server,
                   visited, stack, fault, log, done, valid>>

CallStartNode ==
    /\ call.n < MaxCalls
    /\ \E config \in StartConfigs :
          LET outcome == executeStartNode(Node("s", "start", config), variables)
          IN /\ variables' = outcome.store
             /\ call' = Called("start", config, outcome)
    /\ UNCHANGED <<ExecutorFrame, approvalVars, cliVars>>

CallVariableNode ==
    /\ call.n < MaxCalls
    /\ \E config \in VariableConfigs :
          LET outcome == executeVariableNode(Node("a", "variable", config), variables)
          IN /\ variables' = outcome.store
             /\ call' = Called("variable", config, outcome)
    /\ UNCHANGED <<ExecutorFrame, approvalVars, cliVars>>

CallArithmeticNode ==
    /\ call.n < MaxCalls
    /\ \E config \in ArithmeticConfigs :
          LET outcome == executeArithmeticNode(Node("a", "arithmetic", config), variables)
          IN /\ variables' = outcome.store
             /\ call' = Called("arithmetic", config, outcome)
    /\ UNCHANGED <<ExecutorFrame, approvalVars, cliVars>>

NextExecutors ==
    \/ CallStartNode
    \/ CallVariableNode
    \/ CallArithmeticNode

SpecExecutors == InitExecutors /\ [][NextExecutors]_vars

\* ------------------------------------------------ the resolvers on their own
\* Stores a resolver can find.
ResolverStores ==
    { [EmptyStore EXCEPT !["x"] = vx, !["y"] = vy] :
        vx \in {Absent, Num(5), Str("abc"), Str("5"), Null, Undefined,
                Obj("order"), Obj("items"), Str(OrderJson)},
        vy \in {Absent, Str(ItemsJson), Str("z"), Str("{y}"), Str("{x.note}"),
                Num(5), Undefined} }
    \cup { [EmptyStore EXCEPT ![name] = v] :
              name \in {"", "0x1", "2"}, v \in {Str("abc"), Num(5)} }

\* Raw config values handed to resolveValue.
RawValues ==
    { Str(str) : str \in DottedStrings } \cup
    { Str("x"), Str(""), Str("0x1"), Str("2"), Str("abc"), Num(2), Null, Undefined,
      Bool(TRUE), Str("  "), Str(" 5"), Str("toString") }

InitResolver ==
    /\ flow = ApprovalFlow
    /\ shape = "ok"
    /\ runs = 1
    /\ status = "running"
    /\ error = ""
    /\ variables \in ResolverStores
    /\ nodeResults = EmptyResults
    /\ shouldStop = FALSE
    /\ server = TRUE
    /\ visited = {}
    /\ stack = <<>>
    /\ fault = ""
    /\ log = <<>>
    /\ done = NoDone
    /\ valid = "unchecked"
    /\ now = 0
    /\ pending = <<>>
    /\ wait = NoWait
    /\ callbacks = 0
    /\ waitCount = 0
    /\ call = NoCall
    /\ port = "free"
    /\ tracker = "none"
    /\ stopIssued = FALSE

\* The record of a resolver call on the current store.
Resolved(fn, raw, result) ==
    [fn |-> fn, prev |-> "", config |-> [Cfg0 EXCEPT !.value = raw],
     before |-> variables, ok |-> TRUE, result |-> result, n |-> 1]

CallResolveValue ==
    /\ call = NoCall
    /\ \E raw \in RawValues :
          call' = Resolved("resolveValue", raw, resolveValue(raw, variables))
    /\ UNCHANGED variables
    /\ UNCHANGED <<ExecutorFrame, approvalVars, cliVars>>

\* resolveVariablesInString on a template; config.value1 keeps the template.
CallResolveVariablesInString ==
    /\ call = NoCall
    /\ \E str \in TemplateStrings :
          call' = [Resolved("resolveVariablesInString", Str(str),
                            resolveVariablesInString(Str(str), variables))
                     EXCEPT !.config.value1 = Str(str)]
    /\ UNCHANGED variables
    /\ UNCHANGED <<ExecutorFrame, approvalVars, cliVars>>

\* resolveVariablesInString on the output of the call before, a second pass
\* over the same template.
CallResolveAgain ==
    /\ call.fn = "resolveVariablesInString"
    /\ call.prev = ""
    /\ call' = [Resolved("resolveVariablesInString", call.result,
                         resolveVariablesInString(call.result, variables))
                  EXCEPT !.config.value1 = call.config.value1, !.prev = call.fn]
    /\ UNCHANGED variables
    /\ UNCHANGED <<ExecutorFrame, approvalVars, cliVars>>

NextResolver ==
    \/ CallResolveValue
    \/ CallResolveVariablesInString
    \/ CallResolveAgain

SpecResolver == InitResolver /\ [][NextResolver]_vars

\* ------------------------------------------------- executors side by side
\* Another executor instance of the same start command reaches the webhook
\* start of its own executeFlow first: its own WebhookHandler listens on
\* port 3001. Nothing of this executor is written.
OtherExecutorStarts ==
    /\ port = "free"
    /\ port' = "other"
    /\ UNCHANGED <<engineVars, approvalVars, call, tracker, stopIssued>>

NextConcurrent ==
    \/ Next
    \/ OtherExecutorStarts

SpecConcurrent == Init /\ [][NextConcurrent]_vars

\* ------------------------------------------------------- the stop command
\* Flows started from the CLI here: an interval timer that repeats twice or
\* without bound, reached from the start node, alone or with the stop
\* condition and the variable node behind it.
TrackedFlows ==
    { [nodes |-> c, edges |-> SubSeq2(EdgePool, {1} \cup k, 1)] :
        c \in { <<Node("s", "start", StartStop),
                  Node("a", "timer", Timer("interval", 1, "ms", rc)),
                  Node("b", "conditional", CondStop("equals")),
                  Node("c", "variable", SetStop)>> : rc \in {0, 2} },
        k \in SUBSET {2, 3, 6} }

InitStop ==
    /\ flow \in TrackedFlows
    /\ shape = "ok"
    /\ runs = 0
    /\ status = "idle"
    /\ error = ""
    /\ variables = EmptyStore
    /\ nodeResults = EmptyResults
    /\ shouldStop = FALSE
    /\ server = FALSE
    /\ visited = {}
    /\ stack = <<>>
    /\ fault = ""
    /\ log = <<>>
    /\ done = NoDone
    /\ valid = "unchecked"
    /\ now = 0
    /\ pending = <<>>
    /\ wait = NoWait
    /\ callbacks = 0
    /\ waitCount = 0
    /\ call = NoCall
    /\ port = "free"
    /\ tracker = "none"
    /\ stopIssued = FALSE
    \* the timer without bound has no successor: its loop comes back to the
    \* same state
    /\ \A k \in 1..Len(flow.nodes) :
          (flow.nodes[k].type = "timer" /\ flow.nodes[k].config.repeatCount = 0)
              => NextEdges(flow.nodes[k].id) = <<>>

\* startFlow up to the executeFlow call: the flow is entered in the tracking
\* file as running.
StartFlow ==
    /\ status = "idle"
    /\ tracker = "none"
    /\ ~stopIssued
    /\ tracker' = "running"
    /\ UNCHANGED <<engineVars, approvalVars, call, port, stopIssued>>

\* startFlow after executeFlow has returned or thrown: the entry is removed.
FinishFlow ==
    /\ status \in {"returned", "rejected"}
    /\ tracker = "running"
    /\ tracker' = "none"
    /\ UNCHANGED <<engineVars, approvalVars, call, port, stopIssued>>

\* The stop command, run in a process of its own on a flow the tracking file
\* has as running: the entry is removed from the file. The executor of the
\* flow is not reached.
StopFlows ==
    /\ tracker = "running"
    /\ tracker' = "none"
    /\ stopIssued' = TRUE
    /\ UNCHANGED <<engineVars, approvalVars, call, port>>

\* The steps of the executor: the event loop runs every continuation that is
\* ready and fires every timer that is due.
ExecutorStep ==
    \/ Enter
    \/ Dispatch
    \/ FollowEdge
    \/ TimerStart
    \/ TimerWhile
    \/ TimerEdge
    \/ TimerWake
    \/ TimerReturn
    \/ Return

NextStop ==
    \/ StartFlow
    \/ tracker = "running" /\ runs = 0 /\ ExecuteFlow
    \/ ExecutorStep
    \/ FinishFlow
    \/ StopFlows

SpecStop == InitStop /\ [][NextStop]_vars /\ WF_vars(ExecutorStep)

\* ------------------------------------------------------------ termination
\* An executor on which nothing has been run yet.
IdleExecutor ==
    /\ shape = "ok"
    /\ runs = 0
    /\ status = "idle"
    /\ error = ""
    /\ variables = EmptyStore
    /\ nodeResults = EmptyResults
    /\ shouldStop = FALSE
    /\ server = FALSE
    /\ visited = {}
    /\ stack = <<>>
    /\ fault = ""
    /\ log = <<>>
    /\ done = NoDone
    /\ valid = "unchecked"
    /\ now = 0
    /\ pending = <<>>
    /\ wait = NoWait
    /\ callbacks = 0
    /\ waitCount = 0
    /\ call = NoCall
    /\ port = "free"
    /\ tracker = "none"
    /\ stopIssued = FALSE

\* Candidate edges of the flows below: the start node leads to the timer "a"
\* and to "c"; cycles through "b", through "c" and back to the timer.
CycleEdges ==
    << Edge("s", "a", ""), Edge("s", "c", ""), Edge("a", "b", ""),
       Edge("a", "c", ""), Edge("b", "c", ""), Edge("b", "b", ""),
       Edge("b", "a", ""), Edge("c", "c", "") >>

\* Flows with an interval timer that repeats once over two variable nodes,
\* and flows with an interval timer without bound over a stop condition.
TerminationFlows ==
    { [nodes |-> <<Node("s", "start", StartX),
                   Node("a", "timer", Timer("interval", 1, "ms", 1)),
                   Node("b", "variable", IncX),
                   Node("c", "variable", SetX2)>>,
       edges |-> SubSeq2(CycleEdges, {1} \cup k, 1)] : k \in SUBSET (2..8) }
    \cup
    { [nodes |-> <<Node("s", "start", StartStop),
                   Node("a", "timer", Timer("interval", 1, "ms", 0)),
                   Node("b", "conditional", CondStop("equals")),
                   Node("c", "variable", SetStop)>>,
       edges |-> SubSeq2(EdgePool, k, 1)] : k \in {{1}, {1, 3, 6}} }

InitTermination ==
    /\ flow \in TerminationFlows
    /\ IdleExecutor

NextTermination ==
    \/ ExecuteFlow
    \/ ExecutorStep

\* The event loop runs every continuation that is ready and fires every
\* timer that is due.
SpecTermination ==
    InitTermination /\ [][NextTermination]_vars /\ WF_vars(ExecutorStep)

\* ================================================================== claims
HasIntervalTimer ==
    \E k \in 1..Len(flow.nodes) :
        /\ flow.nodes[k].type = "timer"
        /\ TimerType(flow.nodes[k].config) = "interval"

\* C1: in a run on a flow without an interval timer every node is dispatched
\* to its executor at most once, whatever the edges.
C1_DispatchedAtMostOnce ==
    ~HasIntervalTimer => \A id \in NodeIds : Count(log, id) <= 1

\* C1 witness: a finished run over a cycle and a self-loop, no interval timer.
C1_Witness ==
    /\ ~HasIntervalTimer
    /\ status = "returned"
    /\ \E k \in 1..Len(flow.edges) : flow.edges[k] = Edge("c", "a", "")
    /\ \E k \in 1..Len(flow.edges) : flow.edges[k] = Edge("a", "a", "")
    /\ Count(log, "a") = 1 /\ Count(log, "c") = 1

HandleCount(id, h) ==
    Cardinality({k \in 1..Len(flow.edges) :
                   flow.edges[k].source = id /\ flow.edges[k].sourceHandle = h})

\* A conditional node with one edge tagged "true" and one tagged "false".
IsBranchPair(id) ==
    /\ HasNode(id)
    /\ NodeOf(id).type = "conditional"
    /\ HandleCount(id, "true") = 1
    /\ HandleCount(id, "false") = 1

TagOf(v) == IF v = Bool(TRUE) THEN "true" ELSE "false"

TaggedTargetsExist(id) ==
    \A k \in 1..Len(flow.edges) :
        (flow.edges[k].source = id /\ flow.edges[k].sourceHandle # "")
            => HasNode(flow.edges[k].target)

DispatchStep == Len(log') = Len(log) + 1

\* C3: the stop flag is set only by a conditional node configured with
\* value1 "stopMonitoring" and value2 "true" whose result is true, that step
\* follows none of the node's edges, and while the flag is set no executor is
\* dispatched and no interval loop starts another iteration.
C3_StopHaltsDispatch ==
    [][ /\ (~shouldStop /\ shouldStop') =>
              /\ DispatchStep
              /\ NodeOf(Top.node).type = "conditional"
              /\ NodeOf(Top.node).config.value1 = Str("stopMonitoring")
              /\ NodeOf(Top.node).config.value2 = Str("true")
              /\ nodeResults'[Top.node] = Bool(TRUE)
              /\ stack' = Pop(stack)
        /\ (DispatchStep /\ fault' = ""
              /\ NodeOf(Top.node).type = "conditional"
              /\ NodeOf(Top.node).config.value1 = Str("stopMonitoring")
              /\ NodeOf(Top.node).config.value2 = Str("true")
              /\ nodeResults'[Top.node] = Bool(TRUE))
             => (shouldStop' /\ stack' = Pop(stack))
        /\ shouldStop =>
              /\ ~DispatchStep
              /\ \A k \in 1..Len(stack) :
                    (k <= Len(stack') /\ stack[k].k = "timer")
                        => stack'[k].count = stack[k].count
      ]_vars

\* C3 witness: the stop condition was met in the second iteration of an
\* interval loop and the run ended.
C3_Witness ==
    /\ shouldStop /\ status = "returned" /\ runs = 1
    /\ NodeOf("a").type = "timer"
    /\ Count(log, "b") = 2 /\ Count(log, "c") = 1 /\ Count(log, "a") = 1

\* C4: a fault unwinds the run: the failing execution writes no result
\* entry, and until executeFlow rejects with that fault nothing is
\* dispatched, no activation goes on, and store and result log stay as they
\* were.
C4_FaultUnwinds ==
    [][ /\ (fault = "" /\ fault' # "") =>
              (nodeResults' = nodeResults /\ variables' = variables /\ stack' = stack)
        /\ fault # "" =>
              /\ ~DispatchStep
              /\ variables' = variables
              /\ nodeResults' = nodeResults
              /\ IF stack # <<>>
                 THEN stack' = Pop(stack) /\ fault' = fault /\ status' = "running"
                 ELSE status' = "rejected" /\ error' = fault
      ]_vars

\* C4 witness: a tool call failed below two ancestors and the run rejected
\* with its error.
C4_Witness ==
    /\ status = "rejected" /\ error = "tool failed"
    /\ Len(log) >= 3 /\ nodeResults["c"] = Absent /\ nodeResults["a"] # Absent

\* The flowData of a call is malformed or has no node of kind start.
Malformed(sh) == sh # "ok" \/ \A k \in 1..Len(flow.nodes) : flow.nodes[k].type # "start"

\* C5: executeFlow on a malformed flow, or one without a start node, fails
\* before any node is dispatched and leaves store, result log and stop flag
\* as they were.
C5_InvalidFlowFailsEarly ==
    [][ (runs' = runs + 1 /\ Malformed(shape')) =>
            /\ status' = "rejected"
            /\ error' \in {"Invalid flow: nodes and edges must be arrays",
                           "No Start node found"}
            /\ log' = <<>> /\ stack' = <<>>
            /\ variables' = variables
            /\ nodeResults' = nodeResults
            /\ shouldStop' = shouldStop
      ]_vars

\* C5 witness: a second call with a malformed flow, after a run that left
\* results and set the stop flag.
C5_Witness ==
    /\ runs = 2 /\ shape = "nodesNotArray" /\ status = "rejected"
    /\ shouldStop /\ nodeResults["s"] # Absent

StartKinds == {k \in 1..Len(flow.nodes) : flow.nodes[k].dataType = "start"}

\* C6 as claimed: a flow is accepted, by validate and by executeFlow, only
\* when exactly one node is of kind start.
C6_ExactlyOneStart ==
    /\ valid = "valid" => Cardinality(StartKinds) = 1
    /\ log # <<>> => Cardinality(StartIndexes) = 1

\* C6 amended: a flow is accepted only when at least one node is of kind
\* start; a well-formed flow with two or more start nodes is accepted by
\* validate and by executeFlow, which begins at the first of them.
C6_AtLeastOneStart ==
    /\ valid = "valid" => Cardinality(StartKinds) >= 1
    /\ (valid # "unchecked" /\ shape = "ok" /\ Cardinality(StartKinds) >= 2
          /\ \A k \in 1..Len(flow.nodes) : flow.nodes[k].dataType # "")
         => valid = "valid"
    /\ log # <<>> => (StartIndexes # {} /\ log[1] = StartNode.id)
    /\ (runs > 0 /\ shape = "ok" /\ StartIndexes # {}) => error # "No Start node found"

\* C6 witness: a flow with two start nodes passed validation.
C6_Witness == valid = "valid" /\ Cardinality(StartKinds) = 2

\* The direct successors of a node: targets of its edges that are nodes.
Successors(id) ==
    {flow.edges[k].target : k \in {j \in 1..Len(flow.edges) :
        flow.edges[j].source = id /\ HasNode(flow.edges[j].target)}}

\* C7 as claimed: after a run without stop or fault, the successors of an
\* interval timer with repeatCount 3 and duration 0 were each executed 3
\* times, and the timer's output variable is 0.
C7_IntervalRunsThreeTimes ==
    (/\ status = "returned" /\ ~shouldStop /\ runs = 1
     /\ NodeOf("a").type = "timer"
     /\ TimerType(NodeOf("a").config) = "interval"
     /\ NodeOf("a").config.repeatCount = 3 /\ NodeOf("a").config.duration = 0
     /\ Count(log, "a") = 1)
        => /\ \A t \in Successors("a") \ {"a"} : Count(log, t) = 3
           /\ variables["out"] = Num(0)

\* C8: a registered approval wait that no callback reached before it resolved resolves
\* with "timeout", no later than its timeout plus one poll period after it
\* was registered, and the node returns that outcome as its result, no fault.
C8_TimeoutWithinBound ==
    (wait.state # "none" /\ wait.registered /\ ~wait.delivered) =>
        /\ wait.state \in {"waiting", "resolved", "returned"}
        /\ wait.state = "waiting" => now <= wait.registeredAt + wait.timeout
        /\ wait.state # "waiting" =>
              /\ wait.action = "timeout"
              /\ wait.resolvedAt <= wait.registeredAt + wait.timeout + PollPeriod
        /\ wait.state = "returned" =>
              /\ nodeResults["a"] = ApprovalValue("timeout")
              /\ variables["out"] = ApprovalValue("timeout")
              /\ fault = "" /\ status = "running"

\* C8 witness: a wait nobody answered has timed out and returned.
C8_Witness ==
    /\ wait.registered /\ ~wait.delivered /\ wait.state = "returned"
    /\ wait.action = "timeout" /\ wait.timeout = 3 /\ callbacks = 0
    /\ nodeResults["a"] = ApprovalValue("timeout")

\* C9 as claimed: once a wait has resolved, its approval has no entry in the
\* pending-approval set.
C9_EntryRemovedOnResolve ==
    wait.state \in {"resolved", "returned"}
        => IndexOfApproval(pending, wait.approvalId) = 0

\* C10: a wait is resolved once; after it resolved neither the poll interval
\* nor the overall timeout is armed, and the result it resolved with stays
\* as it is while the node is in that wait.
C10_ResolvedOnce ==
    /\ [](wait.state \in {"none", "waiting"} => wait.resolves = 0)
    /\ [](wait.state \in {"resolved", "returned"} =>
             /\ wait.resolves = 1
             /\ ~wait.interval /\ ~wait.backstop)
    /\ [][(wait.state \in {"resolved", "returned"} /\ waitCount' = waitCount) =>
            /\ wait'.action = wait.action
            /\ wait'.resolvedAt = wait.resolvedAt
            /\ wait'.resolves = wait.resolves]_vars

\* C10 witness: the poll resolved a wait with the user's decision while the
\* overall timeout still lay ahead.
C10_Witness ==
    /\ wait.state = "resolved" /\ wait.action = "approve"
    /\ wait.backstopAt > now /\ wait.resolves = 1

\* C11 as claimed: an increment of a name that is not in the variable store
\* leaves the variable equal to 1 and returns 1.
C11_IncrementUnsetGivesOne ==
    (/\ call.fn = "variable"
     /\ call.config.operation = "increment"
     /\ call.before[call.config.variableName] = Absent)
        => /\ variables[call.config.variableName] = Num(1)
           /\ call.result = Num(1)

\* The number a numeric literal of a config stands for.
IsNumericLiteral(v) ==
    v.t = "num" \/ (v.t = "str" /\ v.s \in DOMAIN NumericLiterals)

RECURSIVE HopsSucceed(_, _, _)
HopsSucceed(current, parts, k) ==
    \/ k > Len(parts)
    \/ /\ current.t = "obj"
       /\ Objects[current.s][parts[k]] # Absent
       /\ LET hop == Objects[current.s][parts[k]]
          IN HopsSucceed(IF hop.t = "str" /\ JsonParse(hop.s).t = "obj"
                         THEN JsonParse(hop.s) ELSE hop, parts, k + 1)

\* The raw string is a dotted path whose first segment is a variable of the
\* store, and some later segment cannot be reached.
TraversalFails(raw, store) ==
    /\ raw.t = "str" /\ raw.s \in DottedStrings
    /\ Split(raw.s)[1] \in VarNames
    /\ store[Split(raw.s)[1]] # Absent
    /\ LET base == store[Split(raw.s)[1]]
       IN ~HopsSucceed(IF base.t = "str" /\ JsonParse(base.s) # Absent
                       THEN JsonParse(base.s) ELSE base, Split(raw.s), 2)

AllPlaceholdersResolve(str, store) ==
    \A k \in 1..Len(Tokens(str.s)) :
        Tokens(str.s)[k].ph => resolveVariablePath(Tokens(str.s)[k].s, store) # Undefined

\* C14 as claimed: a second pass of resolveVariablesInString over the output
\* of a template all of whose placeholders resolved returns that output
\* unchanged.
C14_TemplateIdempotent ==
    (/\ call.fn = "resolveVariablesInString"
     /\ call.prev = "resolveVariablesInString"
     /\ AllPlaceholdersResolve(call.config.value1, call.before))
        => call.result = call.config.value


\* The first run of an executor on a flow that passes executeFlow's check
\* is over.
FirstRunOver ==
    /\ runs = 1
    /\ FlowError(flow, shape) = ""
    /\ status \in {"returned", "rejected", "crashed"}

\* C15: runs of separate executor instances are isolated: whatever the other
\* instances do, a run dispatches the nodes it dispatches alone, so a first
\* run on a checked flow that is over has dispatched its start node first
\* and was ended by executeFlow returning or rejecting.
C15_RunsIsolated ==
    FirstRunOver =>
        /\ status \in {"returned", "rejected"}
        /\ log # <<>>
        /\ log[1] = StartNode.id


\* C16: once the stop command has been run on a flow that is running, the
\* run of that flow comes to an end: its executor dispatches no further node.
C16_StopEndsRun ==
    (stopIssued /\ status = "running") ~> (status # "running")


\* C17: a wait without a webhook handler or without a chat id registers
\* nothing in the pending-approval set, resolves with "approve" after the
\* fixed delay of the simulation, callbacks or none, and the node's result
\* then has approved = true.
C17_SimulatedApproval ==
    /\ [][(wait'.simulation /\ waitCount' # waitCount) => pending' = pending]_vars
    /\ [](~wait.registered =>
            /\ wait.state = "waiting" =>
                  now <= wait.registeredAt + SimulationDelay
            /\ wait.state \in {"resolved", "returned"} =>
                  /\ wait.action = "approve"
                  /\ wait.resolvedAt = wait.registeredAt + SimulationDelay
                  /\ ~wait.delivered
            /\ wait.state = "returned" =>
                  /\ nodeResults["a"] = ApprovalValue("approve")
                  /\ nodeResults["a"].n = 1
                  /\ variables["out"] = ApprovalValue("approve"))

\* C17 witness: a wait with a webhook handler but no chat id has returned an
\* approval, and no callback was ever received.
C17_Witness ==
    /\ wait.state = "returned" /\ ~wait.registered /\ wait.chatId = ""
    /\ wait.action = "approve" /\ callbacks = 0
    /\ nodeResults["a"].n = 1


\* The timer nodes of the flow that repeat: interval timers with a
\* repeatCount above 0 and a duration above 0.
RepeatingTimers ==
    {flow.nodes[k].id : k \in {j \in 1..Len(flow.nodes) :
        /\ flow.nodes[j].type = "timer"
        /\ NodeOf(flow.nodes[j].id) = flow.nodes[j]
        /\ TimerType(flow.nodes[j].config) = "interval"
        /\ RepeatCount(flow.nodes[j].config) > 0
        /\ DurationMs(flow.nodes[j].config) > 0}}

\* C18 as claimed: in a run that returned with the stop flag unset, each
\* direct successor of an interval timer with repeatCount N > 0 and a
\* duration above 0 has been dispatched at most N times, interval iterations
\* and ordinary traversal together.
C18_SuccessorAtMostN ==
    (status = "returned" /\ runs = 1 /\ ~shouldStop) =>
        \A t \in RepeatingTimers :
            \A n \in Successors(t) \ {t} :
                Count(log, n) <= RepeatCount(NodeOf(t).config)


\* The innermost activation is executeTimerNode inside its interval loop.
InIntervalLoop ==
    /\ Running
    /\ Top.k = "timer"
    /\ TimerType(NodeOf(Top.node).config) = "interval"

\* The subgraph of the current iteration has completed: the loop over the
\* timer's edges is past the last edge.
SubgraphDone ==
    /\ InIntervalLoop
    /\ Top.pc = "edges"
    /\ Top.i > Len(NextEdges(Top.node))

\* C19: when the subgraph of an iteration has completed with the stop flag
\* set, the loop ends there, with no wait and no further iteration. The loop
\* waits only after an iteration, with the stop flag unset and repetitions
\* left, and the wait is followed by the next iteration.
C19_WaitOnlyBetweenIterations ==
    /\ [][(SubgraphDone /\ shouldStop) =>
            (Top'.pc = "finish" /\ Top'.count = Top.count)]_vars
    /\ [][(InIntervalLoop /\ Top.pc = "finish") =>
            (Len(stack') < Len(stack) /\ log' = log)]_vars
    /\ []((InIntervalLoop /\ Top.pc = "sleep") =>
            /\ Top.count >= 1
            /\ ~shouldStop
            /\ BelowMaxCount(Top.count, NodeOf(Top.node).config))
    /\ [][(InIntervalLoop /\ Top.pc = "sleep") =>
            (Top'.pc = "while" /\ Len(stack') = Len(stack) /\ ~shouldStop')]_vars
    /\ [][(InIntervalLoop /\ Top.pc = "while" /\ Top.count >= 1
              /\ BelowMaxCount(Top.count, NodeOf(Top.node).config)) =>
            (Top'.pc = "edges" /\ Len(stack') = Len(stack))]_vars

\* C19 witness: the loop has waited between its first and its second
\* iteration, and the stop check after the second one has ended it.
C19_Witness ==
    /\ InIntervalLoop
    /\ Top.pc = "finish" /\ Top.count = 2 /\ shouldStop


\* The last node dispatched.
LastDispatched == log[Len(log)]

\* The run was rejected with the fault of a node that timer t dispatched in
\* one of its iterations: the node is a successor of t that only t leads to,
\* and it has not been dispatched more often than t iterates.
FaultedInIteration(t) ==
    /\ status = "rejected" /\ runs = 1 /\ FlowError(flow, shape) = ""
    /\ Count(log, t) = 1
    /\ LastDispatched \in Successors(t) \ {t}
    /\ \A k \in 1..Len(flow.edges) :
          flow.edges[k].target = LastDispatched => flow.edges[k].source = t
    /\ Cardinality({k \in 1..Len(flow.edges) :
                       flow.edges[k].target = LastDispatched}) = 1
    /\ Count(log, LastDispatched) <= RepeatCount(NodeOf(t).config)

\* C20: a fault that reaches executeTimerNode from an iteration ends that
\* activation there and goes on upwards: no wait, no further iteration, no
\* result entry for the timer and no output variable. A run rejected with
\* the fault of an iteration has no result of the timer, has not set its
\* output variable, and rejects with the error of the node that failed.
C20_FaultAbortsLoop ==
    /\ [][(status = "running" /\ fault # "" /\ stack # <<>> /\ Top.k = "timer") =>
            /\ stack' = Pop(stack)
            /\ fault' = fault
            /\ log' = log
            /\ nodeResults' = nodeResults
            /\ variables' = variables]_vars
    /\ [](\A t \in RepeatingTimers :
            FaultedInIteration(t) =>
                /\ error = executeNode(NodeOf(LastDispatched), variables, "fail").err
                /\ nodeResults[t] = Absent
                /\ variables[NodeOf(t).config.outputVariable] = Absent)

\* C20 witness: the tool call of the second iteration failed; the first
\* iteration had completed and the run was rejected.
C20_Witness ==
    /\ flow = ToolLoopFlow
    /\ FaultedInIteration("a")
    /\ log = <<"s", "a", "b", "c", "b">>
    /\ nodeResults["a"] = Absent /\ variables["y"] = Absent


\* The nodes an edge path of one to n edges leads to from the nodes of S.
RECURSIVE ReachWithin(_, _)
ReachWithin(S, n) ==
    IF n = 0 THEN {}
    ELSE LET next == UNION {Successors(id) : id \in S}
         IN next \cup ReachWithin(next, n - 1)

Reach(id) == ReachWithin({id}, Len(flow.nodes))

\* The timer nodes of the flow that run an interval loop.
IntervalTimers ==
    {flow.nodes[k].id : k \in {j \in 1..Len(flow.nodes) :
        /\ flow.nodes[j].type = "timer"
        /\ TimerType(flow.nodes[j].config) = "interval"
        /\ DurationMs(flow.nodes[j].config) > 0}}

\* Every interval timer of the flow has a repeatCount above 0.
FiniteTimers ==
    \A t \in IntervalTimers : RepeatCount(NodeOf(t).config) > 0

\* No cycle of edges can be reached from an interval timer.
IntervalAcyclic ==
    \A t \in IntervalTimers : \A n \in Reach(t) : n \notin Reach(n)

NoConditional ==
    \A k \in 1..Len(flow.nodes) : flow.nodes[k].type # "conditional"

\* Two activations of executeNodeRecursive for one node, both interval
\* executions, are on the stack at once. Where no node is a conditional the
\* path from the outer one to the inner one is taken again and again.
IntervalReentry ==
    \E i, j \in 1..Len(stack) :
        /\ i < j
        /\ stack[i].k = "rec" /\ stack[j].k = "rec"
        /\ stack[i].interval /\ stack[j].interval
        /\ stack[i].node = stack[j].node

\* C21 as claimed: a run on a flow whose interval timers all have a
\* repeatCount above 0 terminates, cycles inside a timer's subgraph or back
\* to the timer included; so, with no conditional in the flow, no interval
\* execution of a node is ever entered beneath an interval execution of the
\* same node.
C21_TerminatesWithCycles ==
    (FiniteTimers /\ NoConditional) => ~IntervalReentry

\* C21: a run on a flow whose interval timers all have a repeatCount above
\* 0, and from whose interval timers no cycle of edges can be reached,
\* terminates: executeFlow returns or rejects. An interval loop without
\* bound ends, short of a fault, only with the stop flag set.
C21_TerminatesWithoutIntervalCycle ==
    /\ (status = "running" /\ FiniteTimers /\ IntervalAcyclic)
          ~> (status \in {"returned", "rejected"})
    /\ [][(/\ InIntervalLoop
           /\ RepeatCount(NodeOf(Top.node).config) <= 0
           /\ Top.pc # "finish"
           /\ Len(stack') = Len(stack)
           /\ Top'.pc = "finish") => shouldStop]_vars

\* C21 witness: a run has returned on a flow with a cycle outside the
\* timer's subgraph, after the timer's loop ran over its successors.
C21_Witness ==
    /\ status = "returned"
    /\ FiniteTimers /\ IntervalAcyclic
    /\ "c" \in Reach("c")
    /\ Count(log, "b") = 2 /\ Count(log, "c") = 1


\* The edge is followed once its source node has run: always, except from a
\* conditional along a tagged edge, where the result chooses.
Followed(edge) ==
    LET node == NodeOf(edge.source)
    IN /\ HasNode(edge.target)
       /\ (node.type = "conditional" /\ edge.sourceHandle # "") =>
             (IF edge.sourceHandle = "true" THEN Truthy(nodeResults[node.id])
              ELSE ~Truthy(nodeResults[node.id]))

\* Depth-first preorder from a node, edges in declaration order, each node
\* once: order is the sequence so far, its elements the nodes seen.
RECURSIVE DepthFirst(_, _), DepthFirstEdges(_, _, _)
DepthFirst(id, order) ==
    IF \E k \in 1..Len(order) : order[k] = id THEN order
    ELSE DepthFirstEdges(NextEdges(id), 1, Append(order, id))

DepthFirstEdges(edges, i, order) ==
    IF i > Len(edges) THEN order
    ELSE DepthFirstEdges(edges, i + 1,
                         IF Followed(edges[i]) THEN DepthFirst(edges[i].target, order)
                         ELSE order)

SuspendedAt(k) ==
    \/ stack[k].k = "timer" /\ stack[k].pc = "sleep"
    \/ stack[k].k = "rec" /\ stack[k].pc = "await"

\* The executor of a node other than a timer has been called at position k
\* and has not returned.
ExecutorInProgress(k) ==
    /\ stack[k].k = "rec"
    /\ stack[k].pc \in {"exec", "await"}
    /\ NodeOf(stack[k].node).type # "timer"

NoHandlerCall == [fn |-> "", id |-> "", chat |-> "", data |-> "",
                  before |-> <<>>, n |-> 0]

HandlerCalled(fn, id, chat, data) ==
    [fn |-> fn, id |-> id, chat |-> chat, data |-> data,
     before |-> IF fn = "handleCallbackQuery" THEN pending ELSE <<>>,
     n |-> call.n + 1]

InitHandler ==
    /\ flow = ApprovalFlow
    /\ shape = "ok"
    /\ runs = 1
    /\ status = "running"
    /\ error = ""
    /\ variables = EmptyStore
    /\ nodeResults = EmptyResults
    /\ shouldStop = FALSE
    /\ server = TRUE
    /\ visited = {"s", "a"}
    /\ stack = <<>>
    /\ fault = ""
    /\ log = <<>>
    /\ done = NoDone
    /\ valid = "unchecked"
    /\ now = 0
    /\ pending = <<>>
    /\ wait = NoWait
    /\ callbacks = 0
    /\ waitCount = 0
    /\ call = NoHandlerCall
    /\ port = "free"
    /\ tracker = "none"
    /\ stopIssued = FALSE

HandlerFrame == <<engineVars, wait, callbacks, waitCount, cliVars>>

CallRegisterPendingApproval ==
    /\ call.n < MaxHandlerCalls
    /\ \E id \in ApprovalIds, chat \in Chats, timeout \in {1, MaxTimeout} :
          /\ pending' = registerPendingApproval(pending, id, chat, timeout, now)
          /\ call' = HandlerCalled("registerPendingApproval", id, chat, "")
    /\ UNCHANGED <<now, HandlerFrame>>

CallHandleCallbackQuery ==
    /\ call.n < MaxHandlerCalls
    /\ \E chat \in Chats, data \in Decisions :
          /\ pending' = handleCallbackQuery(pending, chat, data, now)
          /\ call' = HandlerCalled("handleCallbackQuery", "", chat, data)
    /\ UNCHANGED <<now, HandlerFrame>>

CallGetApprovalResult ==
    /\ call.n < MaxHandlerCalls
    /\ \E id \in ApprovalIds :
          /\ pending' = IF HasApprovalResult(pending, id)
                        THEN MapDelete(pending, id) ELSE pending
          /\ call' = HandlerCalled("getApprovalResult", id, "", "")
    /\ UNCHANGED <<now, HandlerFrame>>

HandlerTick ==
    /\ now < MaxTimeout + 1
    /\ now' = now + 1
    /\ UNCHANGED <<pending, call, HandlerFrame>>

NextHandler ==
    \/ CallRegisterPendingApproval
    \/ CallHandleCallbackQuery
    \/ CallGetApprovalResult
    \/ HandlerTick

SpecHandler == InitHandler /\ [][NextHandler]_vars

\* The entries of a map that a callback on the chat can be matched to: those
\* of the chat whose status is pending.
Candidates(map, chat) ==
    {k \in 1..Len(map) : map[k].chatId = chat /\ map[k].status = "pending"}

\* The callback call just made found candidate k and changed that entry
\* alone: it is completed with the callback's data, every other entry is as
\* it was.
CompletedOnly(k) ==
    /\ k \in Candidates(call.before, call.chat)
    /\ Len(pending) = Len(call.before)
    /\ pending[k].approvalId = call.before[k].approvalId
    /\ pending[k].status = "completed"
    /\ pending[k].action = call.data
    /\ \A j \in 1..Len(pending) : j # k => pending[j] = call.before[j]

C25_DeliveredDecisionNotLost ==
    (wait.registered /\ wait.delivered /\ wait.state \in {"resolved", "returned"})
        => wait.action \in Decisions

\* C26: the stop flag is scoped to one run: an invocation of executeFlow on
\* an executor that has run before begins with the stop flag unset, and when
\* it returns on a checked flow it has dispatched the start node.
C26_StopFlagRunScoped ==
    (runs >= 2 /\ FlowError(flow, shape) = "")
        => /\ (status = "running" /\ log = <<>>) => ~shouldStop
           /\ status = "returned" => (log # <<>> /\ log[1] = StartNode.id)

\* The raw string is a dotted path whose first segment is a variable of the
\* store: the rule for dotted paths applies to it.
DottedOnVariable(raw, store) ==
    /\ raw.t = "str" /\ raw.s \in DottedStrings
    /\ Split(raw.s)[1] \in VarNames
    /\ store[Split(raw.s)[1]] # Absent

\* C27: resolveValue applies its rules in the stated priority order: a raw
\* string that is the name of a variable in the store resolves to that
\* variable's value, even when the string is empty, 0x-prefixed or a numeric
\* literal; otherwise (and when the rule for dotted paths does not apply) a
\* number passes through unchanged, an empty string resolves to 0, a
\* 0x-prefixed string is returned unchanged, a strict numeric literal becomes
\* that number, and any other string is returned unchanged.
C27_ResolveValuePriority ==
    call.fn = "resolveValue" =>
        LET raw == call.config.value
            store == call.before
        IN IF raw.t = "str" /\ raw.s \in VarNames /\ store[raw.s] # Absent
           THEN call.result = store[raw.s]
           ELSE IF DottedOnVariable(raw, store) THEN TRUE
           ELSE IF raw.t = "num" THEN call.result = raw
           ELSE IF raw = Str("") THEN call.result = Num(0)
           ELSE IF raw.t = "str" /\ raw.s \in HexStrings THEN call.result = raw
           ELSE IF raw.t = "str" /\ raw.s \in DOMAIN NumericLiterals
                THEN call.result = Num(NumericLiterals[raw.s])
           ELSE raw.t = "str" => call.result = raw

\* The edge loop of the top activation, of executeNodeRecursive or of an
\* interval iteration, is at an edge whose target is not the id of a node.
AtUnknownTarget ==
    /\ Running
    /\ Top.pc = "edges"
    /\ Top.i <= Len(NextEdges(Top.node))
    /\ ~HasNode(NextEdges(Top.node)[Top.i].target)

\* C28: an edge whose target is not the id of any node of the flow is
\* skipped without a fault: the step that meets it only moves the edge loop
\* on to the next edge of the same source node, so nothing is dispatched for
\* it, no error is raised, the run goes on, and the edges after it are still
\* to be followed as those before it were.
C28_UnknownTargetSkipped ==
    [][AtUnknownTarget =>
          /\ stack' = SetTop(stack, [Top EXCEPT !.i = Top.i + 1])
          /\ fault' = "" /\ status' = "running"
          /\ log' = log /\ nodeResults' = nodeResults]_vars

\* The start node and the nodes an edge path leads to from it.
ReachFromStart == {StartNode.id} \cup Reach(StartNode.id)

\* C29: on a flow without conditional nodes, when executeFlow returns from a
\* run without fault and with the stop flag unset, every node reachable from
\* the start node along edges has been dispatched at least once; and a node
\* that is not reachable from the start node is never dispatched and has no
\* entry in the result log.
C29_ReachableDispatched ==
    (NoConditional /\ FlowError(flow, shape) = "" /\ runs >= 1)
        => /\ (status = "returned" /\ ~shouldStop)
                 => \A n \in ReachFromStart : Count(log, n) >= 1
           /\ \A k \in 1..Len(flow.nodes) :
                 flow.nodes[k].id \notin ReachFromStart
                     => /\ Count(log, flow.nodes[k].id) = 0
                        /\ nodeResults[flow.nodes[k].id] = Absent

\* A run has returned after dispatching the start node and nodes one and two
\* edges away from it, while another node of the flow cannot be reached and
\* was left alone.
C29_Witness ==
    /\ NoConditional /\ status = "returned" /\ ~shouldStop
    /\ Cardinality(ReachFromStart) = 3
    /\ \E n \in ReachFromStart : n \notin Successors(StartNode.id) \cup {StartNode.id}
    /\ \A n \in ReachFromStart : Count(log, n) >= 1
    /\ \E k \in 1..Len(flow.nodes) :
          /\ flow.nodes[k].id \notin ReachFromStart
          /\ nodeResults[flow.nodes[k].id] = Absent

\* C30: a callback is never matched to an approval whose timeout has
\* elapsed: the entry a callback marks completed is one for which
\* isApprovalPending still reports true, its elapsed time being below its
\* timeout, also when an earlier wait on the chat has timed out and left its
\* entry in the set.
C30_ExpiredNeverMatched ==
    [][callbacks' = callbacks + 1 =>
          \A k \in 1..Len(pending) :
              (pending[k].status = "pending" /\ pending'[k].status = "completed")
                  => isApprovalPending(pending, pending[k].approvalId, now)]_vars

====
